---------------------------- MODULE Spec2Model ----------------------------
(***************************************************************************)
(* A model of the Code-Empathizer analysis core:                           *)
(*   - LanguageAnalyzer          (src/src/language_analyzers/base.py)      *)
(*   - TypeScriptAnalyzer        (.../typescript_analyzer.py)              *)
(*   - AnalyzerFactory           (.../factory.py)                          *)
(*   - DuplicationAnalyzer       (src/src/duplication_analyzer.py)         *)
(*                                                                         *)
(* Python strings that the code takes apart (paths, extensions, language   *)
(* names, source lines) are sequences of one-character strings.  Python    *)
(* floats are exact rationals [n, d] with d > 0 in lowest terms.  A dict   *)
(* is a function on its set of keys; a dict whose iteration order matters  *)
(* is a sequence of its items in insertion order.                          *)
(***************************************************************************)
EXTENDS Integers, Sequences, FiniteSets, TLC

VARIABLES
    \* ---- one LanguageAnalyzer instance and its caller ----
    analyzer,        \* the instance: [cls, metrics, total_files, total_lines]
    an_files,        \* argument of the last analyze_files call
    an_ret,          \* what that call returned, [raised, value]
    an_calls,        \* analyze_files calls made on this instance
    \* ---- AnalyzerFactory (class-level state) and its caller ----
    _analyzers,      \* AnalyzerFactory._analyzers: language name -> class
    fac_regs,        \* register_analyzer calls made so far
    fac_call,        \* the last factory call: [op, ...arguments..., ret]
    \* ---- one DuplicationAnalyzer instance and its caller ----
    dup,             \* the instance: [min_block_size, ignore_whitespace]
    dup_call,        \* the last calls: [pc, files, result, ...]
    \* ---- one CacheManager / CachedAnalyzer pair and its caller ----
    cache,           \* the CacheManager instance: [ttl_hours]
    cache_dir,       \* the cache directory: [files, metadata]
    clock,           \* datetime.now(), in hours
    cache_ops,       \* calls made on the cache so far
    cache_log,       \* per (repo, commit): the last set that succeeded
    cache_call,      \* the last call: [op, ...arguments..., ret]
    \* ---- one GitHubRepo instance and its caller ----
    git,             \* the instance: [config], the file_limits of config.yaml
    git_call,        \* the last call: [op, repo, ..., ret]
    \* ---- two CacheManager instances on the directory cache_dir ----
    managers,        \* per instance: the call it is in and its locals
    \* ---- two project analyses run side by side ----
    heap,            \* the analyzer instances constructed so far
    runs,            \* per run: where it is and its locals
    \* ---- one analizar_repo call against a rate-limited API ----
    git_retry,       \* the call stack of analizar_repo and where it is
    \* ---- one ChartGenerator ----
    chart_call       \* the last chart drawn: [op, labels, series]

anVars  == <<analyzer, an_files, an_ret, an_calls>>
facVars == <<_analyzers, fac_regs, fac_call>>
dupVars == <<dup, dup_call>>
cacheVars == <<cache, cache_dir, clock, cache_ops, cache_log, cache_call>>
gitVars   == <<git, git_call>>
mgrVars   == <<managers>>
runVars   == <<heap, runs>>
retryVars == <<git_retry>>
chartVars == <<chart_call>>
vars    == <<analyzer, an_files, an_ret, an_calls,
             _analyzers, fac_regs, fac_call, dup, dup_call,
             cache, cache_dir, clock, cache_ops, cache_log, cache_call,
             git, git_call, managers, heap, runs, git_retry, chart_call>>

-----------------------------------------------------------------------------
(* Strings *)

\* str.lower(), one character
LowerChar(c) ==
    CASE c = "A" -> "a" [] c = "B" -> "b" [] c = "C" -> "c" [] c = "D" -> "d"
      [] c = "E" -> "e" [] c = "F" -> "f" [] c = "G" -> "g" [] c = "H" -> "h"
      [] c = "I" -> "i" [] c = "J" -> "j" [] c = "K" -> "k" [] c = "L" -> "l"
      [] c = "M" -> "m" [] c = "N" -> "n" [] c = "O" -> "o" [] c = "P" -> "p"
      [] c = "Q" -> "q" [] c = "R" -> "r" [] c = "S" -> "s" [] c = "T" -> "t"
      [] c = "U" -> "u" [] c = "V" -> "v" [] c = "W" -> "w" [] c = "X" -> "x"
      [] c = "Y" -> "y" [] c = "Z" -> "z" [] OTHER -> c

\* str.lower()
Lower(s) == [i \in 1..Len(s) |-> LowerChar(s[i])]

\* str.endswith(suffix)
EndsWith(s, suffix) ==
    /\ Len(suffix) <= Len(s)
    /\ SubSeq(s, Len(s) - Len(suffix) + 1, Len(s)) = suffix

\* os.path.splitext(path)[1]: the text from the last dot of the last path
\* component on, unless that component has nothing but dots before it.
SplitExt(p) ==
    LET seps   == {i \in 1..Len(p) : p[i] = "/"}
        base   == IF seps = {} THEN 1
                  ELSE 1 + CHOOSE i \in seps : \A j \in seps : j <= i
        dots   == {i \in base..Len(p) : p[i] = "."}
        last   == CHOOSE i \in dots : \A j \in dots : j <= i
    IN  IF dots = {} THEN <<>>
        ELSE IF \E k \in base..(last - 1) : p[k] # "." THEN SubSeq(p, last, Len(p))
        ELSE <<>>

-----------------------------------------------------------------------------
(* Numbers: a Python float is the exact rational it stands for *)

RECURSIVE GCD(_, _)
GCD(a, b) == IF b = 0 THEN a ELSE GCD(b, a % b)

Rat(n, d) == LET g == GCD(n, d) IN [n |-> n \div g, d |-> d \div g]
RInt(k)   == [n |-> k, d |-> 1]
RAdd(a, b) == Rat(a.n * b.d + b.n * a.d, a.d * b.d)
RMul(a, b) == Rat(a.n * b.n, a.d * b.d)
RDivInt(a, k) == Rat(a.n, a.d * k)
RLeq(a, b) == a.n * b.d <= b.n * a.d
RLt(a, b)  == a.n * b.d < b.n * a.d
RMin(a, b) == IF RLeq(a, b) THEN a ELSE b

\* sum(list) over a sequence of rationals
RECURSIVE RSum(_)
RSum(s) == IF s = <<>> THEN RInt(0) ELSE RAdd(s[1], RSum(Tail(s)))

-----------------------------------------------------------------------------
(* Dicts *)

EmptyDict == [k \in {} |-> k]

\* d.get(k, default)
DictGet(d, k, default) == IF k \in DOMAIN d THEN d[k] ELSE default

\* d[k] = v
DictSet(d, k, v) == [x \in (DOMAIN d) \cup {k} |-> IF x = k THEN v ELSE d[x]]

\* the list picked out of a sequence by a test, in order (a list comprehension)
RECURSIVE SelectIdx(_, _)
SelectIdx(s, keep) ==
    IF s = <<>> THEN <<>>
    ELSE (IF s[1] \in keep THEN <<s[1]>> ELSE <<>>) \o SelectIdx(Tail(s), keep)

\* 1, 2, ..., n as a sequence
Indices(n) == [i \in 1..n |-> i]

-----------------------------------------------------------------------------
(* Analyzer classes *)

Ext_ts     == <<".", "t", "s">>
Ext_tsx    == <<".", "t", "s", "x">>
Ext_py     == <<".", "p", "y">>
Ext_xyz    == <<".", "x", "y", "z">>
Ext_mylang == <<".", "m", "y", "l", "a", "n", "g">>

\* TypeScriptAnalyzer.get_file_extensions / get_language_name
TypeScriptExtensions   == {Ext_ts, Ext_tsx}
TypeScriptLanguageName == <<"T", "y", "p", "e", "S", "c", "r", "i", "p", "t">>

\* PythonAnalyzer is not among the sources; the factory's docstring lists it
\* as "Python (.py)".
PythonExtensions   == {Ext_py}
PythonLanguageName == <<"P", "y", "t", "h", "o", "n">>

\* The subclass of the base module's docstring ("EJEMPLO DE IMPLEMENTACION"),
\* and the analyzer of a new language with the extension .xyz.
MyLanguageExtensions   == {Ext_mylang}
MyLanguageLanguageName == <<"M", "y", "L", "a", "n", "g", "u", "a", "g", "e">>
XyzExtensions          == {Ext_xyz}
XyzLanguageName        == <<"X", "y", "z">>

\* cls().get_file_extensions()
get_file_extensions(cls) ==
    CASE cls = "TypeScriptAnalyzer" -> TypeScriptExtensions
      [] cls = "PythonAnalyzer"     -> PythonExtensions
      [] cls = "MyLanguageAnalyzer" -> MyLanguageExtensions
      [] cls = "XyzAnalyzer"        -> XyzExtensions

\* cls().get_language_name()
get_language_name(cls) ==
    CASE cls = "TypeScriptAnalyzer" -> TypeScriptLanguageName
      [] cls = "PythonAnalyzer"     -> PythonLanguageName
      [] cls = "MyLanguageAnalyzer" -> MyLanguageLanguageName
      [] cls = "XyzAnalyzer"        -> XyzLanguageName

-----------------------------------------------------------------------------
(* Per-file analysis: analyze_file(file_path, content)                     *)
(*                                                                         *)
(* A source file is [path, nl, base, tc]: its path, the number of newline  *)
(* characters of its content, what the language's own extraction makes of  *)
(* the content (the abstract analyze_file; for TypeScript the JavaScript   *)
(* base class's analyze_file) and the value _calculate_type_coverage       *)
(* computes from the content.                                              *)

Categories ==
    {"nombres", "documentacion", "modularidad", "complejidad",
     "manejo_errores", "pruebas", "seguridad", "consistencia_estilo"}

\* Every category reporting the leaf aggregate_metrics reads: ratio leaves
\* at r, the two count leaves (ciclomatica, funciones) at c.
FullMetrics(r, c) ==
    [nombres             |-> [descriptividad |-> r],
     documentacion       |-> [cobertura |-> r],
     modularidad         |-> [funciones |-> c],
     complejidad         |-> [ciclomatica |-> c],
     manejo_errores      |-> [cobertura |-> r],
     pruebas             |-> [cobertura |-> r],
     seguridad           |-> [validacion |-> r],
     consistencia_estilo |-> [consistencia |-> r]]

\* The per-file results the extraction may produce (or raise).
BaseOutcome(kind) ==
    CASE kind = "raise"   -> [raised |-> TRUE,  metrics |-> EmptyDict]
      [] kind = "zero"    -> [raised |-> FALSE, metrics |-> FullMetrics(RInt(0), RInt(0))]
      [] kind = "half"    -> [raised |-> FALSE, metrics |-> FullMetrics(Rat(1, 2), RInt(1))]
      [] kind = "one"     -> [raised |-> FALSE, metrics |-> FullMetrics(RInt(1), RInt(1))]
      [] kind = "counts"  -> [raised |-> FALSE, metrics |->
                                [modularidad |-> [funciones |-> RInt(3)],
                                 complejidad |-> [ciclomatica |-> RInt(7)],
                                 seguridad   |-> [validacion |-> Rat(1, 2)]]]
      [] kind = "noleaf"  -> [raised |-> FALSE, metrics |->
                                [nombres       |-> [longitud_promedio |-> RInt(1)],
                                 documentacion |-> EmptyDict,
                                 seguridad     |-> [validacion |-> RInt(0)]]]
      [] kind = "partial" -> [raised |-> FALSE, metrics |->
                                [nombres |-> [descriptividad |-> RInt(1)]]]

\* TypeScriptAnalyzer.analyze_file: the base class's result, plus the
\* 'typescript' key and the two boosts.  Indexing a category the base result
\* lacks raises KeyError.
TypeScriptAnalyzeFile(base, tc) ==
    IF base.raised THEN base
    ELSE
      LET m0 == DictSet(base.metrics, "typescript",
                        [type_coverage |-> tc, interfaces |-> RInt(0),
                         type_aliases |-> RInt(0), enums |-> RInt(0)])
          boost == RLt(Rat(7, 10), tc)
          doc0  == DictGet(DictGet(m0, "documentacion", EmptyDict), "cobertura", RInt(0))
          m1 == IF boost
                THEN DictSet(m0, "documentacion",
                       DictSet(m0["documentacion"], "cobertura",
                               RMin(RInt(1), RAdd(doc0, Rat(2, 10)))))
                ELSE m0
          sec0 == DictGet(DictGet(m1, "seguridad", EmptyDict), "validacion", RInt(0))
          m2 == DictSet(m1, "seguridad",
                   DictSet(m1["seguridad"], "validacion",
                           RMin(RInt(1), RAdd(sec0, RMul(tc, Rat(2, 10))))))
      IN  IF boost /\ "documentacion" \notin DOMAIN m0 THEN [raised |-> TRUE, metrics |-> EmptyDict]
          ELSE IF "seguridad" \notin DOMAIN m1 THEN [raised |-> TRUE, metrics |-> EmptyDict]
          ELSE [raised |-> FALSE, metrics |-> m2]

\* self.analyze_file(file_path, content) on an instance of cls
analyze_file(cls, f) ==
    IF cls = "TypeScriptAnalyzer"
    THEN TypeScriptAnalyzeFile(BaseOutcome(f.base), f.tc)
    ELSE BaseOutcome(f.base)

-----------------------------------------------------------------------------
(* LanguageAnalyzer (base.py) *)

\* LanguageAnalyzer.__init__ on an instance of cls
NewAnalyzer(cls) ==
    [cls         |-> cls,
     metrics     |-> [c \in Categories |-> EmptyDict],
     total_files |-> 0,
     total_lines |-> 0]

\* should_analyze_file without its test of the extension
should_analyze_file_any_path(cls, path) == TRUE

\* should_analyze_file: any(file_path.endswith(ext) for ext in extensions)
should_analyze_file(cls, path) ==
    \E ext \in get_file_extensions(cls) : EndsWith(path, ext)

\* The eight blocks of aggregate_metrics: the category, the leaf read from
\* each per-file result and the leaf written to self.metrics.
AggregateTable ==
    << [cat |-> "nombres",             leaf |-> "descriptividad", out |-> "descriptividad"],
       [cat |-> "documentacion",       leaf |-> "cobertura",      out |-> "cobertura_docstrings"],
       [cat |-> "complejidad",         leaf |-> "ciclomatica",    out |-> "complejidad_ciclomatica"],
       [cat |-> "modularidad",         leaf |-> "funciones",      out |-> "funciones_por_archivo"],
       [cat |-> "manejo_errores",      leaf |-> "cobertura",      out |-> "cobertura_manejo_errores"],
       [cat |-> "pruebas",             leaf |-> "cobertura",      out |-> "cobertura_pruebas"],
       [cat |-> "seguridad",           leaf |-> "validacion",     out |-> "validacion_entradas"],
       [cat |-> "consistencia_estilo", leaf |-> "consistencia",   out |-> "consistencia_nombres"] >>

\* Python truth of m.get(cat): the key is there and its dict is not empty
Truthy(m, cat) == cat \in DOMAIN m /\ DOMAIN m[cat] # {}

\* the list with a test of the leaf itself:
\* [m[cat][leaf] for m in file_metrics if leaf in m.get(cat, {})]
LeafScores_reporting_files(file_metrics, cat, leaf) ==
    LET kept == SelectIdx(Indices(Len(file_metrics)),
                          {i \in 1..Len(file_metrics) :
                              leaf \in DOMAIN DictGet(file_metrics[i], cat, EmptyDict)})
    IN  [k \in 1..Len(kept) |-> file_metrics[kept[k]][cat][leaf]]

\* [m.get(cat, {}).get(leaf, 0) for m in file_metrics if m.get(cat)]
LeafScores(file_metrics, cat, leaf) ==
    LET kept == SelectIdx(Indices(Len(file_metrics)),
                          {i \in 1..Len(file_metrics) : Truthy(file_metrics[i], cat)})
    IN  [k \in 1..Len(kept) |->
            DictGet(DictGet(file_metrics[kept[k]], cat, EmptyDict), leaf, RInt(0))]

\* One block of aggregate_metrics, applied to self.metrics
AggregateBlock(metrics, file_metrics, row) ==
    LET scores == LeafScores(file_metrics, row.cat, row.leaf)
    IN  IF scores # <<>>
        THEN [metrics EXCEPT ![row.cat] =
                 DictSet(@, row.out, RDivInt(RSum(scores), Len(scores)))]
        ELSE metrics

RECURSIVE AggregateFrom(_, _, _)
AggregateFrom(metrics, file_metrics, k) ==
    IF k > Len(AggregateTable) THEN metrics
    ELSE AggregateFrom(AggregateBlock(metrics, file_metrics, AggregateTable[k]),
                       file_metrics, k + 1)

\* aggregate_metrics ending with self.metrics.update of the keys of the last
\* per-file result that self.metrics lacks
aggregate_metrics_merging_keys(metrics, file_metrics) ==
    IF file_metrics = <<>> THEN metrics
    ELSE LET m    == AggregateFrom(metrics, file_metrics, 1)
             last == file_metrics[Len(file_metrics)]
         IN  [k \in (DOMAIN m) \cup (DOMAIN last) |->
                 IF k \in DOMAIN m THEN m[k] ELSE last[k]]

\* aggregate_metrics(file_metrics): the new self.metrics
aggregate_metrics(metrics, file_metrics) ==
    IF file_metrics = <<>> THEN metrics
    ELSE AggregateFrom(metrics, file_metrics, 1)

\* The pass with the two counters advanced ahead of the call of analyze_file,
\* so that a raising file is counted.
AnalyzeOne_counting_first(st, f) ==
    IF ~should_analyze_file(st.self.cls, f.path) THEN st
    ELSE
      LET res     == analyze_file(st.self.cls, f)
          counted == [st EXCEPT !.self.total_files = @ + 1,
                                !.self.total_lines = @ + f.nl]
      IN  IF res.raised THEN counted
          ELSE [counted EXCEPT !.file_metrics = Append(@, res.metrics)]

\* One pass of the loop of analyze_files, for the item f of files.items().
\* st is [self, file_metrics, raised]; the try/except keeps a raising
\* analyze_file from touching any of them.
AnalyzeOne(st, f) ==
    IF ~should_analyze_file(st.self.cls, f.path) THEN st
    ELSE
      LET res == analyze_file(st.self.cls, f)
      IN  IF res.raised THEN st
          ELSE [st EXCEPT !.file_metrics = Append(@, res.metrics),
                          !.self.total_files = @ + 1,
                          !.self.total_lines = @ + f.nl]

RECURSIVE AnalyzeLoop(_, _)
AnalyzeLoop(st, files) ==
    IF files = <<>> \/ st.raised THEN st
    ELSE AnalyzeLoop(AnalyzeOne(st, files[1]), Tail(files))

\* analyze_files(files): [self, raised, value], the instance afterwards,
\* whether the call raised, and the mapping it returned (self.metrics)
analyze_files(self, files) ==
    LET st  == AnalyzeLoop([self |-> self, file_metrics |-> <<>>, raised |-> FALSE], files)
        end == IF st.file_metrics # <<>> /\ ~st.raised
               THEN [st.self EXCEPT !.metrics = aggregate_metrics(@, st.file_metrics)]
               ELSE st.self
    IN  [self |-> end, raised |-> st.raised,
         value |-> IF st.raised THEN EmptyDict ELSE end.metrics]

\* weights of calculate_empathy_score, in insertion order
Weights ==
    << [cat |-> "nombres",             w |-> Rat(15, 100)],
       [cat |-> "documentacion",       w |-> Rat(15, 100)],
       [cat |-> "modularidad",         w |-> Rat(15, 100)],
       [cat |-> "complejidad",         w |-> Rat(15, 100)],
       [cat |-> "manejo_errores",      w |-> Rat(10, 100)],
       [cat |-> "pruebas",             w |-> Rat(10, 100)],
       [cat |-> "seguridad",           w |-> Rat(10, 100)],
       [cat |-> "consistencia_estilo", w |-> Rat(10, 100)] >>

\* sum of the values of a dict of numbers
RECURSIVE DictSum(_, _)
DictSum(d, keys) ==
    IF keys = {} THEN RInt(0)
    ELSE LET k == CHOOSE x \in keys : TRUE
         IN  RAdd(d[k], DictSum(d, keys \ {k}))

\* the scores list of calculate_empathy_score: avg * weight for every
\* category of self.metrics that holds a numeric value
CategoryScores(metrics) ==
    LET kept == SelectIdx(Indices(Len(Weights)),
                   {i \in 1..Len(Weights) :
                       DOMAIN DictGet(metrics, Weights[i].cat, EmptyDict) # {}})
    IN  [k \in 1..Len(kept) |->
            LET cm == metrics[Weights[kept[k]].cat]
            IN  RMul(RDivInt(DictSum(cm, DOMAIN cm), Cardinality(DOMAIN cm)),
                     Weights[kept[k]].w)]

\* calculate_empathy_score()
calculate_empathy_score(metrics) == RSum(CategoryScores(metrics))

\* get_summary()
get_summary(self) ==
    [language      |-> get_language_name(self.cls),
     total_files   |-> self.total_files,
     total_lines   |-> self.total_lines,
     metrics       |-> self.metrics,
     empathy_score |-> calculate_empathy_score(self.metrics)]

-----------------------------------------------------------------------------
(* A caller of one LanguageAnalyzer instance *)

MaxFiles == 2
MaxCalls == 2

Path_a_ts     == <<"a">> \o Ext_ts
Path_b_tsx    == <<"b">> \o Ext_tsx
Path_c_mylang == <<"c">> \o Ext_mylang

AnClasses == {"TypeScriptAnalyzer", "MyLanguageAnalyzer"}
AnPaths   == <<Path_a_ts, Path_b_tsx, Path_c_mylang>>

\* contents: newline count, the extraction's outcome, the type coverage
AnContents ==
    { [nl |-> 1, base |-> "raise",  tc |-> RInt(0)],
      [nl |-> 2, base |-> "half",   tc |-> Rat(4, 5)],
      [nl |-> 3, base |-> "counts", tc |-> RInt(0)],
      [nl |-> 0, base |-> "noleaf", tc |-> Rat(7, 10)] }

File(path, c) == [path |-> path, nl |-> c.nl, base |-> c.base, tc |-> c.tc]

\* the file maps of up to n items: items in insertion order, keys distinct
FileMaps(paths, contents, n) ==
    UNION { { s \in [1..k -> {File(p, c) : p \in paths, c \in contents}] :
                \A i, j \in 1..k : i # j => s[i].path # s[j].path }
            : k \in 0..n }

\* those of them whose items come in the order of the sequence paths
OrderedFileMaps(paths, contents, n) ==
    LET rank(p) == CHOOSE i \in 1..Len(paths) : paths[i] = p
    IN  { s \in FileMaps({paths[i] : i \in 1..Len(paths)}, contents, n) :
            \A i, j \in 1..Len(s) : i < j => rank(s[i].path) < rank(s[j].path) }

NoReturn == [raised |-> FALSE, value |-> EmptyDict]


\* analyzer = cls()
Construct(cls) ==
    /\ an_calls > 0
    /\ analyzer' = NewAnalyzer(cls)
    /\ an_files' = <<>>
    /\ an_ret' = NoReturn
    /\ an_calls' = 0
    /\ UNCHANGED <<facVars, dupVars, cacheVars, gitVars,
                   mgrVars, runVars, retryVars, chartVars>>

\* analyzer.analyze_files(files)
AnalyzeFiles(files) ==
    /\ an_calls < MaxCalls
    /\ LET r == analyze_files(analyzer, files)
       IN  /\ analyzer' = r.self
           /\ an_ret' = [raised |-> r.raised, value |-> r.value]
    /\ an_files' = files
    /\ an_calls' = an_calls + 1
    /\ UNCHANGED <<facVars, dupVars, cacheVars, gitVars,
                   mgrVars, runVars, retryVars, chartVars>>

AnNext ==
    \/ \E cls \in AnClasses : Construct(cls)
    \/ \E files \in OrderedFileMaps(AnPaths, AnContents, MaxFiles) : AnalyzeFiles(files)

-----------------------------------------------------------------------------
(* AnalyzerFactory (factory.py) *)

\* the items of the class attribute _analyzers
AnalyzerItems ==
    << <<<<"p", "y", "t", "h", "o", "n">>, "PythonAnalyzer">>,
       <<<<"j", "a", "v", "a", "s", "c", "r", "i", "p", "t">>, "JavaScriptAnalyzer">>,
       <<<<"t", "y", "p", "e", "s", "c", "r", "i", "p", "t">>, "TypeScriptAnalyzer">>,
       <<<<"j", "a", "v", "a">>, "JavaAnalyzer">>,
       <<<<"g", "o">>, "GoAnalyzer">>,
       <<<<"c", "#">>, "CSharpAnalyzer">>,
       <<<<"c", "s", "h", "a", "r", "p">>, "CSharpAnalyzer">>,
       <<<<"c", "+", "+">>, "CppAnalyzer">>,
       <<<<"c", "p", "p">>, "CppAnalyzer">>,
       <<<<"p", "h", "p">>, "PHPAnalyzer">>,
       <<<<"r", "u", "b", "y">>, "RubyAnalyzer">>,
       <<<<"s", "w", "i", "f", "t">>, "SwiftAnalyzer">>,
       <<<<"h", "t", "m", "l">>, "HTMLAnalyzer">>,
       <<<<"c", "s", "s">>, "CSSAnalyzer">> >>

\* the items of the class attribute _extension_map
ExtensionItems ==
    << <<<<".", "p", "y">>, <<"p", "y", "t", "h", "o", "n">>>>,
       <<<<".", "j", "s">>, <<"j", "a", "v", "a", "s", "c", "r", "i", "p", "t">>>>,
       <<<<".", "j", "s", "x">>, <<"j", "a", "v", "a", "s", "c", "r", "i", "p", "t">>>>,
       <<<<".", "m", "j", "s">>, <<"j", "a", "v", "a", "s", "c", "r", "i", "p", "t">>>>,
       <<<<".", "t", "s">>, <<"t", "y", "p", "e", "s", "c", "r", "i", "p", "t">>>>,
       <<<<".", "t", "s", "x">>, <<"t", "y", "p", "e", "s", "c", "r", "i", "p", "t">>>>,
       <<<<".", "j", "a", "v", "a">>, <<"j", "a", "v", "a">>>>,
       <<<<".", "g", "o">>, <<"g", "o">>>>,
       <<<<".", "c", "s">>, <<"c", "s", "h", "a", "r", "p">>>>,
       <<<<".", "c", "p", "p">>, <<"c", "p", "p">>>>,
       <<<<".", "c", "c">>, <<"c", "p", "p">>>>,
       <<<<".", "c", "x", "x">>, <<"c", "p", "p">>>>,
       <<<<".", "h", "p", "p">>, <<"c", "p", "p">>>>,
       <<<<".", "h">>, <<"c", "p", "p">>>>,
       <<<<".", "h", "h">>, <<"c", "p", "p">>>>,
       <<<<".", "p", "h", "p">>, <<"p", "h", "p">>>>,
       <<<<".", "p", "h", "p", "3">>, <<"p", "h", "p">>>>,
       <<<<".", "p", "h", "p", "4">>, <<"p", "h", "p">>>>,
       <<<<".", "p", "h", "p", "5">>, <<"p", "h", "p">>>>,
       <<<<".", "p", "h", "t", "m", "l">>, <<"p", "h", "p">>>>,
       <<<<".", "r", "b">>, <<"r", "u", "b", "y">>>>,
       <<<<".", "r", "a", "k", "e">>, <<"r", "u", "b", "y">>>>,
       <<<<".", "g", "e", "m", "s", "p", "e", "c">>, <<"r", "u", "b", "y">>>>,
       <<<<".", "s", "w", "i", "f", "t">>, <<"s", "w", "i", "f", "t">>>>,
       <<<<".", "h", "t", "m", "l">>, <<"h", "t", "m", "l">>>>,
       <<<<".", "h", "t", "m">>, <<"h", "t", "m", "l">>>>,
       <<<<".", "x", "h", "t", "m", "l">>, <<"h", "t", "m", "l">>>>,
       <<<<".", "c", "s", "s">>, <<"c", "s", "s">>>>,
       <<<<".", "s", "c", "s", "s">>, <<"c", "s", "s">>>>,
       <<<<".", "s", "a", "s", "s">>, <<"c", "s", "s">>>>,
       <<<<".", "l", "e", "s", "s">>, <<"c", "s", "s">>>> >>

\* dict(items)
DictOf(items) ==
    [k \in {items[i][1] : i \in 1..Len(items)} |->
        LET i == CHOOSE j \in 1..Len(items) : items[j][1] = k IN items[i][2]]

DefaultAnalyzers == DictOf(AnalyzerItems)
_extension_map   == DictOf(ExtensionItems)

\* Python's None is the empty tuple, a value v that is there is <<v>>
None    == <<>>
Some(v) == <<v>>

\* register_analyzer(language, analyzer_class): the new _analyzers
register_analyzer(registry, language, analyzer_class) ==
    DictSet(registry, Lower(language), analyzer_class)

\* get_analyzer(language): [raised, ret]
get_analyzer(registry, language) ==
    IF Lower(language) \in DOMAIN registry
    THEN [raised |-> FALSE, ret |-> Some(NewAnalyzer(registry[Lower(language)]))]
    ELSE [raised |-> FALSE, ret |-> None]

\* get_analyzer_for_file falling back on the first registered language
\* when the extension is not in _extension_map
get_analyzer_for_file_with_default(registry, file_path) ==
    LET ext      == SplitExt(file_path)
        language == DictGet(_extension_map, Lower(ext), AnalyzerItems[1][1])
    IN  get_analyzer(registry, language)

\* get_analyzer_for_file(file_path): [raised, ret]
get_analyzer_for_file(registry, file_path) ==
    LET ext      == SplitExt(file_path)
        language == DictGet(_extension_map, Lower(ext), None)
    IN  IF language # None
        THEN get_analyzer(registry, language)
        ELSE [raised |-> FALSE, ret |-> None]

\* language_counts[language] = language_counts.get(language, 0) + 1, on the
\* ordered dict language_counts: a sequence of [language, n]
CountLanguage(language_counts, language) ==
    IF \E i \in 1..Len(language_counts) : language_counts[i].language = language
    THEN [i \in 1..Len(language_counts) |->
            IF language_counts[i].language = language
            THEN [language_counts[i] EXCEPT !.n = @ + 1]
            ELSE language_counts[i]]
    ELSE Append(language_counts, [language |-> language, n |-> 1])

\* the loop of detect_primary_language
RECURSIVE LanguageCounts(_, _)
LanguageCounts(language_counts, files) ==
    IF files = <<>> THEN language_counts
    ELSE
      LET language == DictGet(_extension_map, Lower(SplitExt(files[1].path)), None)
      IN  LanguageCounts(IF language # None
                         THEN CountLanguage(language_counts, language)
                         ELSE language_counts,
                         Tail(files))

\* detect_primary_language with a max that keeps the last of the largest
detect_primary_language_last_max(files) ==
    LET language_counts == LanguageCounts(<<>>, files)
        i == CHOOSE k \in 1..Len(language_counts) :
                /\ \A j \in 1..Len(language_counts) :
                      language_counts[j].n <= language_counts[k].n
                /\ \A j \in (k + 1)..Len(language_counts) :
                      language_counts[j].n < language_counts[k].n
    IN  IF language_counts # <<>> THEN Some(language_counts[i].language) ELSE None

\* detect_primary_language(files): max(language_counts, key=language_counts.get)
\* is the first key, in iteration order, whose count is the largest
detect_primary_language(files) ==
    LET language_counts == LanguageCounts(<<>>, files)
        i == CHOOSE k \in 1..Len(language_counts) :
                /\ \A j \in 1..Len(language_counts) :
                      language_counts[j].n <= language_counts[k].n
                /\ \A j \in 1..(k - 1) :
                      language_counts[j].n < language_counts[k].n
    IN  IF language_counts # <<>> THEN Some(language_counts[i].language) ELSE None

\* language_files[language][file_path] = content, on the ordered dict
\* language_files: a sequence of [language, files]
AddToGroup(language_files, language, f) ==
    IF \E i \in 1..Len(language_files) : language_files[i].language = language
    THEN [i \in 1..Len(language_files) |->
            IF language_files[i].language = language
            THEN [language_files[i] EXCEPT !.files = Append(@, f)]
            ELSE language_files[i]]
    ELSE Append(language_files, [language |-> language, files |-> <<f>>])

\* "Group files by language"
RECURSIVE GroupFiles(_, _, _)
GroupFiles(registry, language_files, files) ==
    IF files = <<>> THEN language_files
    ELSE
      LET a == get_analyzer_for_file(registry, files[1].path).ret
      IN  GroupFiles(registry,
                     IF a # None
                     THEN AddToGroup(language_files, get_language_name(a[1].cls), files[1])
                     ELSE language_files,
                     Tail(files))

\* "Analyze each language separately": results['languages'], an ordered
\* dict, as the sequence of its values, each with its key.  The duplication,
\* dependency, pattern, performance and comment reports only add entries to
\* the value; nothing here reads them.
RECURSIVE AnalyzeLanguages(_, _)
AnalyzeLanguages(registry, language_files) ==
    IF language_files = <<>> THEN <<>>
    ELSE
      LET g == language_files[1]
          a == get_analyzer(registry, Lower(g.language)).ret
          r == analyze_files(a[1], g.files)
      IN  (IF a # None
           THEN << [language   |-> g.language,
                    metrics    |-> r.value,
                    summary    |-> get_summary(r.self),
                    file_count |-> Len(g.files)] >>
           ELSE <<>>)
          \o AnalyzeLanguages(registry, Tail(language_files))

\* max(language_files, key=lambda x: len(language_files[x])): the first key,
\* in iteration order, whose file count is the largest
PrimaryOf(language_files) ==
    LET i == CHOOSE k \in 1..Len(language_files) :
                /\ \A j \in 1..Len(language_files) :
                      Len(language_files[j].files) <= Len(language_files[k].files)
                /\ \A j \in 1..(k - 1) :
                      Len(language_files[j].files) < Len(language_files[k].files)
    IN  language_files[i].language

\* sum of a sequence of integers
RECURSIVE ISum(_)
ISum(s) == IF s = <<>> THEN 0 ELSE s[1] + ISum(Tail(s))

\* the loop of _calculate_aggregate_metrics: weighted_empathy after the
\* languages from k on, starting from acc
RECURSIVE WeightedEmpathy(_, _, _, _)
WeightedEmpathy(languages, total_files, k, acc) ==
    IF k > Len(languages) THEN acc
    ELSE WeightedEmpathy(languages, total_files, k + 1,
            RAdd(acc, RMul(languages[k].summary.empathy_score,
                           Rat(languages[k].file_count, total_files))))

\* _calculate_aggregate_metrics taking total_files from the summaries, the
\* files each analyzer got through, in place of the file_count entries
_calculate_aggregate_metrics_from_summaries(languages) ==
    IF languages = <<>> THEN EmptyDict
    ELSE
      LET total_files == ISum([i \in 1..Len(languages) |-> languages[i].summary.total_files])
          total_lines == ISum([i \in 1..Len(languages) |-> languages[i].summary.total_lines])
      IN  [total_files           |-> total_files,
           total_lines           |-> total_lines,
           languages_analyzed    |-> [i \in 1..Len(languages) |-> languages[i].language],
           overall_empathy_score |-> RInt(0)]

\* _calculate_aggregate_metrics without its early return: zeros for no language
_calculate_aggregate_metrics_always_filled(languages) ==
    LET total_files == ISum([i \in 1..Len(languages) |-> languages[i].file_count])
        total_lines == ISum([i \in 1..Len(languages) |-> languages[i].summary.total_lines])
    IN  [total_files           |-> total_files,
         total_lines           |-> total_lines,
         languages_analyzed    |-> [i \in 1..Len(languages) |-> languages[i].language],
         overall_empathy_score |->
             IF languages = <<>> THEN RInt(0)
             ELSE WeightedEmpathy(languages, total_files, 1, RInt(0))]

\* _calculate_aggregate_metrics(language_results)
_calculate_aggregate_metrics(languages) ==
    IF languages = <<>> THEN EmptyDict
    ELSE
      LET total_files == ISum([i \in 1..Len(languages) |-> languages[i].file_count])
          total_lines == ISum([i \in 1..Len(languages) |-> languages[i].summary.total_lines])
      IN  [total_files           |-> total_files,
           total_lines           |-> total_lines,
           languages_analyzed    |-> [i \in 1..Len(languages) |-> languages[i].language],
           overall_empathy_score |-> WeightedEmpathy(languages, total_files, 1, RInt(0))]

\* analyze_multi_language_project(files): the results dict, and the local
\* language_files the grouping built
analyze_multi_language_project(registry, files) ==
    LET language_files == GroupFiles(registry, <<>>, files)
        languages      == AnalyzeLanguages(registry, language_files)
    IN  [language_files   |-> language_files,
         languages        |-> languages,
         primary_language |-> IF language_files # <<>>
                              THEN Some(PrimaryOf(language_files)) ELSE None,
         total_metrics    |-> _calculate_aggregate_metrics(languages)]

-----------------------------------------------------------------------------
(* A caller of AnalyzerFactory *)

MaxRegs     == 1
MaxFacFiles == 3

Name_python     == <<"p", "y", "t", "h", "o", "n">>
Name_typescript == <<"t", "y", "p", "e", "s", "c", "r", "i", "p", "t">>
Name_xyz        == <<"x", "y", "z">>
Name_MyLang     == <<"M", "y", "L", "a", "n", "g">>
Name_cobol      == <<"c", "o", "b", "o", "l">>

Path_a_py    == <<"a">> \o Ext_py
Path_b_PY    == <<"b", ".", "P", "Y">>
Path_d_TS    == <<"d", ".", "T", "S">>
Path_c_ts    == <<"c">> \o Ext_ts
Path_foo_xyz == <<"f", "o", "o">> \o Ext_xyz
Path_README  == <<"R", "E", "A", "D", "M", "E">>
Path_dot_py  == Ext_py

\* arguments of register_analyzer
RegNames   == {Name_python, Name_xyz, Name_MyLang}
RegClasses == {"XyzAnalyzer", "MyLanguageAnalyzer"}

\* arguments of get_analyzer and get_analyzer_for_file
AskNames == {Name_python, PythonLanguageName, Name_xyz, Name_MyLang, Name_cobol}
AskPaths == {Path_a_py, Path_b_PY, Path_c_ts, Path_foo_xyz, Path_README, Path_dot_py}

\* arguments of analyze_multi_language_project
FacPaths    == {Path_a_py, Path_b_PY, Path_c_ts, Path_d_TS, Path_foo_xyz}
FacContents ==
    { [nl |-> 1, base |-> "raise", tc |-> RInt(0)],
      [nl |-> 2, base |-> "one",   tc |-> Rat(4, 5)] }

\* detect_primary_language reads the keys of files only
DetectContents == { [nl |-> 0, base |-> "one", tc |-> RInt(0)] }

NoCall == [op |-> "none"]

\* the caller takes the result of its last call and goes on
FacReturn ==
    /\ fac_call # NoCall
    /\ fac_call' = NoCall
    /\ UNCHANGED <<_analyzers, fac_regs, anVars, dupVars, cacheVars, gitVars,
                   mgrVars, runVars, retryVars, chartVars>>

\* AnalyzerFactory.register_analyzer(language, analyzer_class)
RegisterAnalyzer(language, cls) ==
    /\ fac_call = NoCall
    /\ fac_regs < MaxRegs
    /\ _analyzers' = register_analyzer(_analyzers, language, cls)
    /\ fac_regs' = fac_regs + 1
    /\ fac_call' = [op |-> "register_analyzer", language |-> language, cls |-> cls]
    /\ UNCHANGED <<anVars, dupVars, cacheVars, gitVars,
                   mgrVars, runVars, retryVars, chartVars>>

\* AnalyzerFactory.get_analyzer(language)
GetAnalyzer(language) ==
    /\ fac_call = NoCall
    /\ fac_call' = [op |-> "get_analyzer", language |-> language,
                    out |-> get_analyzer(_analyzers, language)]
    /\ UNCHANGED <<_analyzers, fac_regs, anVars, dupVars, cacheVars, gitVars,
                   mgrVars, runVars, retryVars, chartVars>>

\* AnalyzerFactory.get_analyzer_for_file(file_path)
GetAnalyzerForFile(path) ==
    /\ fac_call = NoCall
    /\ fac_call' = [op |-> "get_analyzer_for_file", path |-> path,
                    out |-> get_analyzer_for_file(_analyzers, path)]
    /\ UNCHANGED <<_analyzers, fac_regs, anVars, dupVars, cacheVars, gitVars,
                   mgrVars, runVars, retryVars, chartVars>>

\* AnalyzerFactory.analyze_multi_language_project(files)
AnalyzeMultiLanguageProject(files) ==
    /\ fac_call = NoCall
    /\ fac_call' = [op |-> "analyze_multi_language_project", files |-> files,
                    out |-> analyze_multi_language_project(_analyzers, files)]
    /\ UNCHANGED <<_analyzers, fac_regs, anVars, dupVars, cacheVars, gitVars,
                   mgrVars, runVars, retryVars, chartVars>>

\* AnalyzerFactory.detect_primary_language(files)
DetectPrimaryLanguage(files) ==
    /\ fac_call = NoCall
    /\ fac_call' = [op |-> "detect_primary_language", files |-> files,
                    out |-> detect_primary_language(files)]
    /\ UNCHANGED <<_analyzers, fac_regs, anVars, dupVars, cacheVars, gitVars,
                   mgrVars, runVars, retryVars, chartVars>>

FacNext ==
    \/ FacReturn
    \/ \E files \in FileMaps(FacPaths, DetectContents, MaxFacFiles) :
          DetectPrimaryLanguage(files)
    \/ \E language \in RegNames, cls \in RegClasses : RegisterAnalyzer(language, cls)
    \/ \E language \in AskNames : GetAnalyzer(language)
    \/ \E path \in AskPaths : GetAnalyzerForFile(path)
    \/ \E files \in FileMaps(FacPaths, FacContents, MaxFacFiles) :
          AnalyzeMultiLanguageProject(files)

-----------------------------------------------------------------------------
(* DuplicationAnalyzer (duplication_analyzer.py)                           *)
(*                                                                         *)
(* A file's content is the sequence of its lines, content.split('\n'):     *)
(* the empty content is the one empty line.                                *)

Whitespace == {" ", "\t"}

\* re.sub(r'//.*|#.*|<!--.*?-->', '', line)
RECURSIVE StripComments(_)
StripComments(s) ==
    IF s = <<>> THEN <<>>
    ELSE IF s[1] = "#" THEN <<>>
    ELSE IF Len(s) >= 2 /\ s[1] = "/" /\ s[2] = "/" THEN <<>>
    ELSE
      LET opens  == Len(s) >= 4 /\ SubSeq(s, 1, 4) = <<"<", "!", "-", "-">>
          closes == {k \in 5..(Len(s) - 2) : SubSeq(s, k, k + 2) = <<"-", "-", ">">>}
          close  == CHOOSE k \in closes : \A j \in closes : k <= j
      IN  IF opens /\ closes # {}
          THEN StripComments(SubSeq(s, close + 3, Len(s)))
          ELSE <<s[1]>> \o StripComments(Tail(s))

\* str.strip()
RECURSIVE LStrip(_)
LStrip(s) == IF s # <<>> /\ s[1] \in Whitespace THEN LStrip(Tail(s)) ELSE s
RECURSIVE RStrip(_)
RStrip(s) ==
    IF s # <<>> /\ s[Len(s)] \in Whitespace THEN RStrip(SubSeq(s, 1, Len(s) - 1)) ELSE s
Strip(s) == RStrip(LStrip(s))

\* re.sub(r'\s+', ' ', s)
RECURSIVE CollapseSpaces(_)
CollapseSpaces(s) ==
    IF s = <<>> THEN <<>>
    ELSE IF s[1] \in Whitespace
         THEN <<" ">> \o CollapseSpaces(LStrip(s))
         ELSE <<s[1]>> \o CollapseSpaces(Tail(s))

\* normalize_line that leaves the white space of the line alone
normalize_line_keeping_whitespace(self, line) == StripComments(line)

\* normalize_line(line)
normalize_line(self, line) ==
    LET l1 == StripComments(line)
    IN  IF self.ignore_whitespace THEN CollapseSpaces(Strip(l1)) ELSE l1

\* hashlib.md5('\n'.join(block_lines)).hexdigest(): the digest stands for
\* the text it was taken of (no two texts of the model collide)
BlockHash(block_lines) == block_lines

\* the window of extract_blocks that starts at the 0-based line i:
\* its normalized lines that are not blank
WindowLines(self, lines, i) ==
    LET norm == [j \in 1..self.min_block_size |-> normalize_line(self, lines[i + j])]
    IN  SelectIdx(norm, {norm[j] : j \in {k \in 1..self.min_block_size : Strip(norm[k]) # <<>>}})

\* extract_blocks(content, file_path)
RECURSIVE ExtractFrom(_, _, _, _)
ExtractFrom(self, lines, file_path, i) ==
    IF i >= Len(lines) - self.min_block_size + 1 THEN <<>>
    ELSE
      LET block_lines == WindowLines(self, lines, i)
      IN  (IF Len(block_lines) >= self.min_block_size
           THEN << [hash       |-> BlockHash(block_lines),
                    file_path  |-> file_path,
                    start_line |-> i + 1,
                    end_line   |-> i + self.min_block_size,
                    size       |-> Len(block_lines)] >>
           ELSE <<>>)
          \o ExtractFrom(self, lines, file_path, i + 1)

extract_blocks(self, content, file_path) == ExtractFrom(self, content, file_path, 0)


\* content.strip() is empty: every line is blank
IsBlankContent(content) == \A i \in 1..Len(content) : Strip(content[i]) = <<>>

\* "Extraer bloques de todos los archivos": all_blocks
RECURSIVE AllBlocks(_, _)
AllBlocks(self, files) ==
    IF files = <<>> THEN <<>>
    ELSE (IF IsBlankContent(files[1].content) THEN <<>>
          ELSE extract_blocks(self, files[1].content, files[1].path))
         \o AllBlocks(self, Tail(files))

\* blocks_by_hash, an ordered dict, as the sequence of its items
\* [hash, blocks]
RECURSIVE BlocksByHash(_, _)
BlocksByHash(groups, blocks) ==
    IF blocks = <<>> THEN groups
    ELSE
      LET b == blocks[1]
          g == IF \E i \in 1..Len(groups) : groups[i].hash = b.hash
               THEN [i \in 1..Len(groups) |->
                       IF groups[i].hash = b.hash
                       THEN [groups[i] EXCEPT !.blocks = Append(@, b)]
                       ELSE groups[i]]
               ELSE Append(groups, [hash |-> b.hash, blocks |-> <<b>>])
      IN  BlocksByHash(g, Tail(blocks))

\* duplicates: the groups with more than one block
Duplicates(groups) ==
    LET kept == SelectIdx(Indices(Len(groups)),
                          {i \in 1..Len(groups) : Len(groups[i].blocks) > 1})
    IN  [k \in 1..Len(kept) |->
            [hash        |-> groups[kept[k]].hash,
             occurrences |-> Len(groups[kept[k]].blocks),
             blocks      |-> groups[kept[k]].blocks,
             size        |-> groups[kept[k]].blocks[1].size]]

\* file_duplication_stats, an ordered defaultdict(int), as the sequence of
\* its items [path, n]: n grows by the cluster's size for every block
RECURSIVE AddStats(_, _, _)
AddStats(stats, blocks, size) ==
    IF blocks = <<>> THEN stats
    ELSE
      LET p == blocks[1].file_path
          s == IF \E i \in 1..Len(stats) : stats[i].path = p
               THEN [i \in 1..Len(stats) |->
                       IF stats[i].path = p
                       THEN [stats[i] EXCEPT !.n = @ + size] ELSE stats[i]]
               ELSE Append(stats, [path |-> p, n |-> size])
      IN  AddStats(s, Tail(blocks), size)

RECURSIVE FileDuplicationStats(_, _)
FileDuplicationStats(stats, duplicates) ==
    IF duplicates = <<>> THEN stats
    ELSE FileDuplicationStats(AddStats(stats, duplicates[1].blocks, duplicates[1].size),
                              Tail(duplicates))

\* the sum counting every occurrence of a cluster, the first one too
TotalDuplicatedLines_every_occurrence(duplicates) ==
    ISum([k \in 1..Len(duplicates) |-> duplicates[k].size * duplicates[k].occurrences])

\* total_duplicated_lines = sum(d['size'] * (d['occurrences'] - 1) ...)
TotalDuplicatedLines(duplicates) ==
    ISum([k \in 1..Len(duplicates) |->
            duplicates[k].size * (duplicates[k].occurrences - 1)])

\* total_lines = sum(len(content.split('\n')) for content in files.values())
TotalLines(files) == ISum([i \in 1..Len(files) |-> Len(files[i].content)])

\* round(x, 2) of x >= 0: the nearest hundredth, a tie to the even one
Round2(x) ==
    LET num == 100 * x.n
        q   == num \div x.d
        r   == num % x.d
        up  == 2 * r > x.d \/ (2 * r = x.d /\ q % 2 = 1)
    IN  Rat(IF up THEN q + 1 ELSE q, 100)

\* the level of _generate_summary
SummaryLevel(percentage) ==
    IF RLt(percentage, RInt(5)) THEN "Excelente"
    ELSE IF RLt(percentage, RInt(15)) THEN "Bueno"
    ELSE IF RLt(percentage, RInt(25)) THEN "Moderado"
    ELSE "Alto"

Max(a, b) == IF a >= b THEN a ELSE b
Min(a, b) == IF a <= b THEN a ELSE b

\* the content of the file at file_path: files_content[file_path]
ContentOf(files, file_path) ==
    files[CHOOSE i \in 1..Len(files) : files[i].path = file_path].content

\* find_duplicates(files_content)
find_duplicates(self, files) ==
    LET duplicates == Duplicates(BlocksByHash(<<>>, AllBlocks(self, files)))
        total_duplicated_lines == TotalDuplicatedLines(duplicates)
        files_with_duplicates ==
            UNION { {duplicates[k].blocks[i].file_path :
                        i \in 1..Len(duplicates[k].blocks)} : k \in 1..Len(duplicates) }
        total_lines == TotalLines(files)
        duplication_percentage ==
            RMul(Rat(total_duplicated_lines, Max(total_lines, 1)), RInt(100))
        stats == FileDuplicationStats(<<>>, duplicates)
        most  == CHOOSE i \in 1..Len(stats) :
                    /\ \A j \in 1..Len(stats) : stats[j].n <= stats[i].n
                    /\ \A j \in 1..(i - 1) : stats[j].n < stats[i].n
        max_duplication ==
            RMul(Rat(stats[most].n, Max(Len(ContentOf(files, stats[most].path)), 1)),
                 RInt(100))
    IN  [porcentaje_global   |-> Round2(duplication_percentage),
         bloques_encontrados |-> Len(duplicates),
         total_ocurrencias   |-> ISum([k \in 1..Len(duplicates) |-> duplicates[k].occurrences]),
         lineas_duplicadas   |-> total_duplicated_lines,
         archivos_afectados  |-> files_with_duplicates,
         total_archivos      |-> Len(files),
         mayor_duplicacion   |->
             IF stats # <<>>
             THEN Some([archivo |-> stats[most].path,
                        porcentaje |-> Round2(max_duplication)])
             ELSE None,
         duplicates_details  |-> duplicates,
         summary             |-> [level    |-> SummaryLevel(duplication_percentage),
                                  bloques  |-> Len(duplicates),
                                  archivos |-> Cardinality(files_with_duplicates)]]

\* find_duplicates raises at "if not content.strip()" when a value of
\* files_content is None instead of a string
FindDuplicatesRaises(files) == \E i \in 1..Len(files) : files[i].content = None

\* the call self.find_duplicates(files_content), as what it returns or raises
FindDuplicatesOutcome(self, files) ==
    IF FindDuplicatesRaises(files)
    THEN [raised |-> TRUE, error |-> "AttributeError"]
    ELSE [raised |-> FALSE, value |-> find_duplicates(self, files)]

\* the dict the except branch of analyze_repository_files returns
ErrorResult(files, e) ==
    [porcentaje_global   |-> RInt(0),
     bloques_encontrados |-> 0,
     total_ocurrencias   |-> 0,
     lineas_duplicadas   |-> 0,
     archivos_afectados  |-> {},
     total_archivos      |-> Len(files),
     mayor_duplicacion   |-> None,
     duplicates_details  |-> <<>>,
     summary             |-> "Error en el analisis de duplicacion",
     error               |-> e]

\* analyze_repository_files with no except branch
analyze_repository_files_without_except(self, files) ==
    FindDuplicatesOutcome(self, files)

\* analyze_repository_files(files_content)
analyze_repository_files(self, files) ==
    LET outcome == FindDuplicatesOutcome(self, files)
    IN  IF outcome.raised
        THEN [raised |-> FALSE, value |-> ErrorResult(files, outcome.error)]
        ELSE outcome

-----------------------------------------------------------------------------
(* A caller of one DuplicationAnalyzer instance *)

MaxDupFiles == 2

\* the default of __init__'s min_block_size
DefaultMinBlockSize == 5

DupSizes == {1, 2, DefaultMinBlockSize}

Line_x    == <<"x">>
Line_xi   == <<" ", " ", "x">>
Line_y    == <<"y">>
Line_xc   == <<"x", " ", "#", "c">>
Line_c    == <<"/", "/", "c">>
Line_sp   == <<" ">>
Line_none == <<>>

\* a function body of six lines, plain and indented
Body     == << <<"a">>, <<"b">>, <<"c">>, <<"d">>, <<"e">>, <<"f">> >>
BodyDeep == [i \in 1..Len(Body) |-> <<"\t">> \o Body[i]]

\* the lines s with the line l put in after the first k of them
InsertLine(s, k, l) == SubSeq(s, 1, k) \o <<l>> \o SubSeq(s, k + 1, Len(s))

DupContents ==
    { <<Line_none>>,
      <<Line_sp, Line_none>>,
      <<Line_x, Line_x>>,
      <<Line_x, Line_xi, Line_xc>>,
      <<Line_x, Line_none, Line_y>>,
      <<Line_y, Line_c, Line_x>>,
      Body,
      InsertLine(BodyDeep, 6, Line_none),
      InsertLine(BodyDeep, 1, Line_none),
      InsertLine(Body, 3, Line_sp) }

DupPaths == { <<"a">> \o Ext_py, <<"b">> \o Ext_py, <<"c">> \o Ext_py }

\* the maps of up to n files, items in insertion order
DupFileMaps(n) ==
    UNION { { s \in [1..k -> [path : DupPaths, content : DupContents]] :
                \A i, j \in 1..k : i # j => s[i].path # s[j].path }
            : k \in 0..n }

\* files together with a second copy of every file under a fresh path
WithCopies(files) ==
    files \o [i \in 1..Len(files) |->
                [path |-> <<"2", "/">> \o files[i].path, content |-> files[i].content]]

\* analyzer.find_duplicates(files)
FindDuplicates(files) ==
    /\ dup_call.pc = "idle"
    /\ dup_call' = [pc |-> "done", files |-> files, out |-> find_duplicates(dup, files)]
    /\ UNCHANGED <<dup, anVars, facVars, cacheVars, gitVars,
                   mgrVars, runVars, retryVars, chartVars>>

\* analyzer.find_duplicates of the same files with a copy of each
FindDuplicatesWithCopies ==
    /\ dup_call.pc = "done"
    /\ dup_call' = [pc |-> "copied", files |-> dup_call.files, out |-> dup_call.out,
                    out2 |-> find_duplicates(dup, WithCopies(dup_call.files))]
    /\ UNCHANGED <<dup, anVars, facVars, cacheVars, gitVars,
                   mgrVars, runVars, retryVars, chartVars>>

\* an empty file and a file of white space only
BlankContents == { <<Line_none>>, <<Line_sp, Line_none>> }

\* files together with one more file, of content blank, under a fresh path
WithBlank(files, blank) ==
    Append(files, [path |-> <<"e">> \o Ext_py, content |-> blank])

\* analyzer.find_duplicates of the same files with a blank file added
FindDuplicatesWithBlank(blank) ==
    /\ dup_call.pc = "done"
    /\ dup_call' = [pc |-> "padded", files |-> dup_call.files, out |-> dup_call.out,
                    blank |-> blank,
                    out2 |-> find_duplicates(dup, WithBlank(dup_call.files, blank))]
    /\ UNCHANGED <<dup, anVars, facVars, cacheVars, gitVars,
                   mgrVars, runVars, retryVars, chartVars>>

\* the contents of a repository file: missing (None), empty, the body
RepoContents == { None, <<Line_none>>, Body }

\* the maps of up to n repository files, items in insertion order
RepoFileMaps(n) ==
    UNION { { s \in [1..k -> [path : DupPaths, content : RepoContents]] :
                \A i, j \in 1..k : i # j => s[i].path # s[j].path }
            : k \in 0..n }

\* analyzer.analyze_repository_files(files)
AnalyzeRepositoryFiles(files) ==
    /\ dup_call.pc = "idle"
    /\ dup_call' = [pc |-> "analyzed", files |-> files,
                    out |-> analyze_repository_files(dup, files)]
    /\ UNCHANGED <<dup, anVars, facVars, cacheVars, gitVars,
                   mgrVars, runVars, retryVars, chartVars>>

\* the caller takes the result and goes on
DupReturn ==
    /\ dup_call.pc # "idle"
    /\ dup_call' = [pc |-> "idle"]
    /\ UNCHANGED <<dup, anVars, facVars, cacheVars, gitVars,
                   mgrVars, runVars, retryVars, chartVars>>

DupNext ==
    \/ \E files \in DupFileMaps(MaxDupFiles) : FindDuplicates(files)
    \/ FindDuplicatesWithCopies
    \/ \E blank \in BlankContents : FindDuplicatesWithBlank(blank)
    \/ \E files \in RepoFileMaps(MaxDupFiles) : AnalyzeRepositoryFiles(files)
    \/ DupReturn

-----------------------------------------------------------------------------
(* CacheManager and CachedAnalyzer (src/src/cache_manager.py) *)

\* "if commit_hash:" of an Optional[str]: neither None nor the empty string
CommitGiven(commit_hash) == commit_hash # None /\ commit_hash[1] # <<>>

\* get_cache_key(repo_name, commit_hash): the key string that is hashed;
\* the MD5 digest of the key string stands for the string itself
get_cache_key(repo_name, commit_hash) ==
    IF CommitGiven(commit_hash)
    THEN repo_name \o <<":">> \o commit_hash[1]
    ELSE repo_name

\* payloads: a metrics dict, the empty dict, a dict json cannot encode
Metrics(id)    == [kind |-> "metrics", id |-> id]
EmptyPayload   == [kind |-> "empty"]
Unserialisable == [kind |-> "unserialisable"]

\* "if cached_result:" and "if result:" of an optional payload
PayloadTruthy(r) == r # None /\ r[1].kind # "empty"

\* datetime.isoformat() of the time t, and a string that is no ISO date
IsoFormat(t) == [valid |-> TRUE, t |-> t]
BadIso       == [valid |-> FALSE]

\* the text of a file that json.dump left unfinished
PartialText == [text |-> "partial"]

\* json.dump(cache_data, f): the text in the file afterwards; it raises at a
\* value it cannot encode, with the file opened for writing already
JsonDump(cache_data) ==
    IF cache_data.data # None /\ cache_data.data[1].kind = "unserialisable"
    THEN [raised |-> TRUE,  text |-> PartialText]
    ELSE [raised |-> FALSE, text |-> [text |-> "json", obj |-> cache_data]]

\* json.load(f)
JsonLoad(file) ==
    IF file.text = "json" THEN [raised |-> FALSE, value |-> file.obj]
    ELSE [raised |-> TRUE]

\* d without the key k
RemoveKey(d, k) == [x \in (DOMAIN d) \ {k} |-> d[x]]

\* delete(repo_name, commit_hash): the directory afterwards
delete(dir, repo_name, commit_hash) ==
    LET cache_key == get_cache_key(repo_name, commit_hash)
    IN  [files    |-> RemoveKey(dir.files, cache_key),
         metadata |-> RemoveKey(dir.metadata, cache_key)]

\* the try block of get on an entry file that exists: it raises, or finds
\* the entry expired, or reaches cached_data['data']
ReadEntry(self, file, now) ==
    LET loaded == JsonLoad(file)
    IN  IF loaded.raised THEN [raised |-> TRUE]
        ELSE IF "timestamp" \notin DOMAIN loaded.value THEN [raised |-> TRUE]
        ELSE IF ~loaded.value.timestamp.valid THEN [raised |-> TRUE]
        ELSE IF now - loaded.value.timestamp.t > self.ttl_hours
             THEN [raised |-> FALSE, expired |-> TRUE]
        ELSE IF "data" \notin DOMAIN loaded.value THEN [raised |-> TRUE]
        ELSE [raised |-> FALSE, expired |-> FALSE, data |-> loaded.value.data]

\* get(repo_name, commit_hash): what it returns and the directory afterwards
get(self, dir, now, repo_name, commit_hash) ==
    LET cache_key == get_cache_key(repo_name, commit_hash)
        read      == ReadEntry(self, dir.files[cache_key], now)
    IN  IF cache_key \notin DOMAIN dir.files THEN [ret |-> None, dir |-> dir]
        ELSE IF read.raised THEN [ret |-> None, dir |-> dir]
        ELSE IF read.expired
             THEN [ret |-> None, dir |-> delete(dir, repo_name, commit_hash)]
        ELSE [ret |-> read.data, dir |-> dir]

\* set(repo_name, data, commit_hash): whether the entry was written, and the
\* directory afterwards
set(self, dir, now, repo_name, data, commit_hash) ==
    LET cache_key  == get_cache_key(repo_name, commit_hash)
        cache_data == [timestamp   |-> IsoFormat(now),
                       repo_name   |-> repo_name,
                       commit_hash |-> commit_hash,
                       data        |-> data]
        dumped     == JsonDump(cache_data)
    IN  IF dumped.raised
        THEN [ok  |-> FALSE,
              dir |-> [dir EXCEPT !.files = DictSet(@, cache_key, dumped.text)]]
        ELSE [ok  |-> TRUE,
              dir |-> [files    |-> DictSet(dir.files, cache_key, dumped.text),
                       metadata |-> DictSet(dir.metadata, cache_key,
                                            [repo_name   |-> repo_name,
                                             commit_hash |-> commit_hash,
                                             timestamp   |-> IsoFormat(now)])]]

\* clear_all()
clear_all(dir) == [files |-> EmptyDict, metadata |-> EmptyDict]

\* clear_expired(): the entries that metadata.json dates past the ttl go
clear_expired(self, dir, now) ==
    LET expired_keys == {k \in DOMAIN dir.metadata :
                            now - dir.metadata[k].timestamp.t > self.ttl_hours}
    IN  [files    |-> [k \in (DOMAIN dir.files) \ expired_keys |-> dir.files[k]],
         metadata |-> [k \in (DOMAIN dir.metadata) \ expired_keys |-> dir.metadata[k]]]

\* CachedAnalyzer.analyze_repo(repo_name, commit_hash, force); analysis is
\* what self.analyzer.analizar_repo(repo_name) does if it is called
analyze_repo(self, dir, now, repo_name, commit_hash, force, analysis) ==
    LET got == IF force THEN [ret |-> None, dir |-> dir]
               ELSE get(self, dir, now, repo_name, commit_hash)
    IN  IF ~force /\ PayloadTruthy(got.ret)
        THEN [invoked |-> FALSE, raised |-> FALSE, ret |-> got.ret,
              stored |-> FALSE, dir |-> got.dir]
        ELSE IF analysis.raised
        THEN [invoked |-> TRUE, raised |-> TRUE, ret |-> None,
              stored |-> FALSE, dir |-> got.dir]
        ELSE IF PayloadTruthy(analysis.value)
        THEN LET put == set(self, got.dir, now, repo_name, analysis.value, commit_hash)
             IN  [invoked |-> TRUE, raised |-> FALSE, ret |-> analysis.value,
                  stored |-> put.ok, dir |-> put.dir]
        ELSE [invoked |-> TRUE, raised |-> FALSE, ret |-> analysis.value,
              stored |-> FALSE, dir |-> got.dir]

-----------------------------------------------------------------------------
(* A caller of one CacheManager and one CachedAnalyzer on it *)

MaxCacheOps == 3
MaxTime     == 2

\* ttl_hours of the constructor
CacheTtls == {1}

Repo_ab   == <<"a", "/", "b">>
Repo_ab_c == <<"a", "/", "b", ":", "c">>
Commit_c  == <<"c">>

\* the identities (repo_name, commit_hash) the caller uses
CacheIds ==
    { <<Repo_ab, None>>, <<Repo_ab, Some(<<>>)>>, <<Repo_ab, Some(Commit_c)>>,
      <<Repo_ab_c, None>> }

\* the data the caller hands to set
SetPayloads ==
    { Some(Metrics(1)), Some(EmptyPayload), Some(Unserialisable) }

\* what analizar_repo can do: raise, return None, return metrics
Analyses ==
    { [raised |-> TRUE],
      [raised |-> FALSE, value |-> None],
      [raised |-> FALSE, value |-> Some(Metrics(2))] }

\* the entry file, if any, at the key of (repo_name, commit_hash)
EntryOf(dir, repo_name, commit_hash) ==
    IF get_cache_key(repo_name, commit_hash) \in DOMAIN dir.files
    THEN Some(dir.files[get_cache_key(repo_name, commit_hash)])
    ELSE None

\* the log of the sets that succeeded, without those whose entry file is
\* not in dir
Forget(log, dir) ==
    [id \in CacheIds |->
        IF get_cache_key(id[1], id[2]) \in DOMAIN dir.files THEN log[id] ELSE None]

NoCacheCall == [op |-> "none"]

\* cache.set(repo_name, data, commit_hash)
CacheSet(repo_name, commit_hash, data) ==
    /\ cache_ops < MaxCacheOps
    /\ LET put == set(cache, cache_dir, clock, repo_name, data, commit_hash)
       IN  /\ cache_dir' = put.dir
           /\ cache_log' =
                 IF put.ok
                 THEN [cache_log EXCEPT ![<<repo_name, commit_hash>>] =
                          Some([data |-> data, at |-> clock])]
                 ELSE cache_log
           /\ cache_call' = [op |-> "set", repo_name |-> repo_name,
                             commit_hash |-> commit_hash, data |-> data,
                             ok |-> put.ok]
    /\ cache_ops' = cache_ops + 1
    /\ UNCHANGED <<cache, clock, anVars, facVars, dupVars, gitVars,
                   mgrVars, runVars, retryVars, chartVars>>

\* cache.get(repo_name, commit_hash)
CacheGet(repo_name, commit_hash) ==
    /\ cache_ops < MaxCacheOps
    /\ LET got == get(cache, cache_dir, clock, repo_name, commit_hash)
       IN  /\ cache_dir' = got.dir
           /\ cache_log' = Forget(cache_log, got.dir)
           /\ cache_call' = [op |-> "get", repo_name |-> repo_name,
                             commit_hash |-> commit_hash, ret |-> got.ret,
                             at |-> clock,
                             entry |-> EntryOf(cache_dir, repo_name, commit_hash),
                             after |-> EntryOf(got.dir, repo_name, commit_hash),
                             logged |-> cache_log[<<repo_name, commit_hash>>]]
    /\ cache_ops' = cache_ops + 1
    /\ UNCHANGED <<cache, clock, anVars, facVars, dupVars, gitVars,
                   mgrVars, runVars, retryVars, chartVars>>

\* cache.delete(repo_name, commit_hash)
CacheDelete(repo_name, commit_hash) ==
    /\ cache_ops < MaxCacheOps
    /\ cache_dir' = delete(cache_dir, repo_name, commit_hash)
    /\ cache_log' = Forget(cache_log, cache_dir')
    /\ cache_call' = [op |-> "delete", repo_name |-> repo_name,
                      commit_hash |-> commit_hash]
    /\ cache_ops' = cache_ops + 1
    /\ UNCHANGED <<cache, clock, anVars, facVars, dupVars, gitVars,
                   mgrVars, runVars, retryVars, chartVars>>

\* cache.clear_all()
CacheClearAll ==
    /\ cache_ops < MaxCacheOps
    /\ cache_dir' = clear_all(cache_dir)
    /\ cache_log' = Forget(cache_log, cache_dir')
    /\ cache_call' = [op |-> "clear_all"]
    /\ cache_ops' = cache_ops + 1
    /\ UNCHANGED <<cache, clock, anVars, facVars, dupVars, gitVars,
                   mgrVars, runVars, retryVars, chartVars>>

\* cache.clear_expired()
CacheClearExpired ==
    /\ cache_ops < MaxCacheOps
    /\ cache_dir' = clear_expired(cache, cache_dir, clock)
    /\ cache_log' = Forget(cache_log, cache_dir')
    /\ cache_call' = [op |-> "clear_expired"]
    /\ cache_ops' = cache_ops + 1
    /\ UNCHANGED <<cache, clock, anVars, facVars, dupVars, gitVars,
                   mgrVars, runVars, retryVars, chartVars>>

\* CachedAnalyzer(cache, analyzer).analyze_repo(repo_name, commit_hash, force)
AnalyzeRepo(repo_name, commit_hash, force, analysis) ==
    /\ cache_ops < MaxCacheOps
    /\ LET done == analyze_repo(cache, cache_dir, clock, repo_name, commit_hash,
                                force, analysis)
       IN  /\ cache_dir' = done.dir
           /\ cache_log' =
                 IF done.stored
                 THEN [Forget(cache_log, done.dir)
                          EXCEPT ![<<repo_name, commit_hash>>] =
                             Some([data |-> done.ret, at |-> clock])]
                 ELSE Forget(cache_log, done.dir)
           /\ cache_call' = [op |-> "analyze_repo", repo_name |-> repo_name,
                             commit_hash |-> commit_hash, force |-> force,
                             analysis |-> IF done.invoked THEN Some(analysis) ELSE None,
                             invoked |-> done.invoked, raised |-> done.raised,
                             ret |-> done.ret, at |-> clock,
                             entry |-> EntryOf(cache_dir, repo_name, commit_hash),
                             after |-> EntryOf(done.dir, repo_name, commit_hash)]
    /\ cache_ops' = cache_ops + 1
    /\ UNCHANGED <<cache, clock, anVars, facVars, dupVars, gitVars,
                   mgrVars, runVars, retryVars, chartVars>>

\* the ways an entry file gets damaged outside the program
DamageKinds == {"truncated", "no_timestamp", "bad_timestamp", "no_data"}

\* the entry file after the damage
Damaged(file, kind) ==
    IF kind = "truncated" THEN PartialText
    ELSE IF kind = "no_timestamp"
         THEN [file EXCEPT !.obj = RemoveKey(@, "timestamp")]
    ELSE IF kind = "bad_timestamp"
         THEN [file EXCEPT !.obj = [@ EXCEPT !.timestamp = BadIso]]
    ELSE [file EXCEPT !.obj = RemoveKey(@, "data")]

\* an entry file of the directory is damaged: cut short, or edited
Damage(cache_key, kind) ==
    /\ cache_ops < MaxCacheOps
    /\ cache_key \in DOMAIN cache_dir.files
    /\ cache_dir.files[cache_key].text = "json"
    /\ DOMAIN cache_dir.files[cache_key].obj
          = {"timestamp", "repo_name", "commit_hash", "data"}
    /\ cache_dir' = [cache_dir EXCEPT !.files[cache_key] = Damaged(@, kind)]
    /\ cache_log' = [id \in CacheIds |->
                        IF get_cache_key(id[1], id[2]) = cache_key
                        THEN None ELSE cache_log[id]]
    /\ cache_call' = [op |-> "damage", cache_key |-> cache_key, kind |-> kind]
    /\ cache_ops' = cache_ops + 1
    /\ UNCHANGED <<cache, clock, anVars, facVars, dupVars, gitVars,
                   mgrVars, runVars, retryVars, chartVars>>

\* an hour goes by
Tick ==
    /\ clock < MaxTime
    /\ clock' = clock + 1
    /\ UNCHANGED <<cache, cache_dir, cache_ops, cache_log, cache_call,
                   anVars, facVars, dupVars, gitVars,
                   mgrVars, runVars, retryVars, chartVars>>

CacheNext ==
    \/ \E id \in CacheIds, data \in SetPayloads : CacheSet(id[1], id[2], data)
    \/ \E id \in CacheIds : CacheGet(id[1], id[2])
    \/ \E id \in CacheIds : CacheDelete(id[1], id[2])
    \/ CacheClearAll
    \/ CacheClearExpired
    \/ \E id \in CacheIds, force \in BOOLEAN, analysis \in Analyses :
          AnalyzeRepo(id[1], id[2], force, analysis)
    \/ \E cache_key \in {get_cache_key(id[1], id[2]) : id \in CacheIds},
          kind \in DamageKinds : Damage(cache_key, kind)
    \/ Tick

-----------------------------------------------------------------------------
(* GitHubRepo (src/src/github_utils.py) *)

\* the configuration _cargar_config falls back to
DefaultConfig ==
    [small_repos      |-> [max_files |-> 150, threshold_kb |-> 0],
     medium_repos     |-> [max_files |-> 80,  threshold_kb |-> 10000],
     large_repos      |-> [max_files |-> 40,  threshold_kb |-> 50000],
     very_large_repos |-> [max_files |-> 20,  threshold_kb |-> 100000]]

\* _get_max_files_limit(repo_size_kb) with self.config's file_limits
_get_max_files_limit(limits, repo_size_kb) ==
    IF repo_size_kb > limits.very_large_repos.threshold_kb
    THEN limits.very_large_repos.max_files
    ELSE IF repo_size_kb > limits.large_repos.threshold_kb
    THEN limits.large_repos.max_files
    ELSE IF repo_size_kb > limits.medium_repos.threshold_kb
    THEN limits.medium_repos.max_files
    ELSE limits.small_repos.max_files

\* AnalyzerFactory.get_supported_extensions()
get_supported_extensions == [i \in 1..Len(ExtensionItems) |-> ExtensionItems[i][1]]

\* the loop "for ext in extensiones_soportadas" on one file of a listing:
\* the file is taken when its path ends with a supported extension, it is no
\* larger than 1 MB and its content decodes
Collectable(file_content) ==
    /\ \E i \in 1..Len(get_supported_extensions) :
          EndsWith(file_content.path, get_supported_extensions[i])
    /\ ~(file_content.size > 1024 * 1024)
    /\ file_content.decodes

\* archivos_codigo[file_content.path] = contenido
CodeFile(file_content) == File(file_content.path, file_content.content)

\* the normal strategy with no test of the limit
RECURSIVE CollectNormal_unlimited(_, _, _, _)
CollectNormal_unlimited(contents, archivos_codigo, archivos_analizados, max_files) ==
    IF contents = <<>>
    THEN [archivos_codigo |-> archivos_codigo, archivos_analizados |-> archivos_analizados]
    ELSE
      LET file_content == contents[1]
      IN  IF file_content.type = "dir"
          THEN IF file_content.listing = None
               THEN [archivos_codigo |-> archivos_codigo,
                     archivos_analizados |-> archivos_analizados]
               ELSE CollectNormal_unlimited(Tail(contents) \o file_content.listing[1],
                                            archivos_codigo, archivos_analizados, max_files)
          ELSE IF Collectable(file_content)
          THEN CollectNormal_unlimited(Tail(contents),
                                       Append(archivos_codigo, CodeFile(file_content)),
                                       archivos_analizados + 1, max_files)
          ELSE CollectNormal_unlimited(Tail(contents), archivos_codigo,
                                       archivos_analizados, max_files)

\* "Estrategia normal para repos pequenos": the while loop over contents; a
\* directory repo.get_contents cannot list raises into the except around the
\* loop, which keeps the files found so far
RECURSIVE CollectNormal(_, _, _, _)
CollectNormal(contents, archivos_codigo, archivos_analizados, max_files) ==
    IF contents = <<>> \/ ~(archivos_analizados < max_files)
    THEN [archivos_codigo |-> archivos_codigo, archivos_analizados |-> archivos_analizados]
    ELSE
      LET file_content == contents[1]
      IN  IF file_content.type = "dir"
          THEN IF file_content.listing = None
               THEN [archivos_codigo |-> archivos_codigo,
                     archivos_analizados |-> archivos_analizados]
               ELSE CollectNormal(Tail(contents) \o file_content.listing[1],
                                  archivos_codigo, archivos_analizados, max_files)
          ELSE IF Collectable(file_content)
          THEN CollectNormal(Tail(contents),
                             Append(archivos_codigo, CodeFile(file_content)),
                             archivos_analizados + 1, max_files)
          ELSE CollectNormal(Tail(contents), archivos_codigo,
                             archivos_analizados, max_files)

\* the fast strategy's loops over the files of one listing
RECURSIVE CollectListing(_, _, _, _)
CollectListing(listing, archivos_codigo, archivos_analizados, max_files) ==
    IF listing = <<>> \/ archivos_analizados >= max_files
    THEN [archivos_codigo |-> archivos_codigo, archivos_analizados |-> archivos_analizados]
    ELSE IF listing[1].type = "file" /\ Collectable(listing[1])
    THEN CollectListing(Tail(listing), Append(archivos_codigo, CodeFile(listing[1])),
                        archivos_analizados + 1, max_files)
    ELSE CollectListing(Tail(listing), archivos_codigo, archivos_analizados, max_files)

\* "Procesar solo algunos subdirectorios": at most 20 entries of each; a
\* subdirectory that cannot be listed is passed over
RECURSIVE CollectSubdirs(_, _, _, _)
CollectSubdirs(subdirs, archivos_codigo, archivos_analizados, max_files) ==
    IF subdirs = <<>> \/ archivos_analizados >= max_files
    THEN [archivos_codigo |-> archivos_codigo, archivos_analizados |-> archivos_analizados]
    ELSE IF subdirs[1].listing = None
    THEN CollectSubdirs(Tail(subdirs), archivos_codigo, archivos_analizados, max_files)
    ELSE
      LET subdir_contents == subdirs[1].listing[1]
          got == CollectListing(SubSeq(subdir_contents, 1, Min(Len(subdir_contents), 20)),
                                archivos_codigo, archivos_analizados, max_files)
      IN  CollectSubdirs(Tail(subdirs), got.archivos_codigo, got.archivos_analizados,
                         max_files)

\* "Usando estrategia de analisis rapido": the files of the root, then the
\* first 5 directories of the root
CollectFast(contents, max_files) ==
    LET root_files == SelectIdx(contents, {contents[i] : i \in {j \in 1..Len(contents) :
                                                contents[j].type = "file"}})
        dirs       == SelectIdx(contents, {contents[i] : i \in {j \in 1..Len(contents) :
                                                contents[j].type = "dir"}})
        subdirs    == SubSeq(dirs, 1, Min(Len(dirs), 5))
        got        == CollectListing(root_files, <<>>, 0, max_files)
    IN  CollectSubdirs(subdirs, got.archivos_codigo, got.archivos_analizados, max_files)

\* "Inicializar metricas con valores numericos": the eight categories of
\* metricas_totales
DefaultMetrics ==
    [nombres             |-> [descriptividad |-> RInt(0)],
     documentacion       |-> [cobertura_docstrings |-> RInt(0)],
     modularidad         |-> [funciones_por_archivo |-> RInt(0),
                              clases_por_archivo    |-> RInt(0),
                              cohesion_promedio     |-> RInt(0),
                              acoplamiento_promedio |-> RInt(0)],
     complejidad         |-> [complejidad_ciclomatica     |-> RInt(0),
                              max_nivel_anidacion         |-> RInt(0),
                              longitud_promedio_funciones |-> RInt(0)],
     manejo_errores      |-> [cobertura_manejo_errores  |-> RInt(0),
                              especificidad_excepciones |-> RInt(0),
                              densidad_try_except       |-> RInt(0)],
     pruebas             |-> [cobertura_pruebas |-> RInt(0),
                              densidad_asserts  |-> RInt(0),
                              funciones_test    |-> RInt(0)],
     seguridad           |-> [validacion_entradas      |-> RInt(0),
                              uso_funciones_peligrosas |-> RInt(1),
                              total_validaciones       |-> RInt(0)],
     consistencia_estilo |-> [consistencia_nombres        |-> RInt(0),
                              espaciado_consistente       |-> RInt(0),
                              longitud_lineas_consistente |-> RInt(0)]]

\* "Actualizar metricas totales con las del analisis": every category of
\* metricas_totales that the primary language's metrics have is replaced by
\* theirs
MergeMetrics(metricas_totales, metricas_principales) ==
    [categoria \in DOMAIN metricas_totales |->
        IF categoria # "metadata" /\ categoria \in DOMAIN metricas_principales
        THEN metricas_principales[categoria]
        ELSE metricas_totales[categoria]]

\* metricas_totales before the analysis: the defaults, and metadata with
\* the count of files and the note that the limit was reached
MetricasTotales(repo, max_files, got) ==
    LET metadata == [tamano_kb |-> repo.size,
                     archivos_analizados |-> got.archivos_analizados]
    IN  DictSet(DefaultMetrics, "metadata",
                IF got.archivos_analizados >= max_files
                THEN DictSet(metadata, "nota_limite", max_files)
                ELSE metadata)

\* "Analizar archivos usando el factory multi-lenguaje": metricas_totales as
\* returned, or None when indexing languages with the primary language
\* raises KeyError into the last except.  The duplicacion, dependencias,
\* patrones, rendimiento and comentarios reports are further keys beside the
\* eight categories.
MergeAnalysis(metricas_totales, analisis_multi) ==
    LET primary == analisis_multi.primary_language
        found   == {i \in 1..Len(analisis_multi.languages) :
                       analisis_multi.languages[i].language = primary[1]}
        tm      == analisis_multi.total_metrics
    IN  IF primary # None /\ found = {} THEN None
        ELSE Some(DictSet(
                IF primary # None
                THEN MergeMetrics(metricas_totales,
                                  analisis_multi.languages[CHOOSE i \in found : TRUE].metrics)
                ELSE metricas_totales,
                "metadata",
                DictSet(DictSet(DictSet(metricas_totales.metadata,
                    "lenguajes_analizados", DictGet(tm, "languages_analyzed", <<>>)),
                    "archivos_analizados", DictGet(tm, "total_files", 0)),
                    "empathy_score_global", DictGet(tm, "overall_empathy_score", RInt(0)))))

\* the part of analizar_repo after the files are collected
BuildMetrics(registry, repo, max_files, got) ==
    IF got.archivos_codigo = <<>>
    THEN Some(MetricasTotales(repo, max_files, got))
    ELSE CHOOSE ret \in
            { MergeAnalysis(MetricasTotales(repo, max_files, got), analisis_multi) :
                analisis_multi \in
                    {analyze_multi_language_project(registry, got.archivos_codigo)} } : TRUE

\* analizar_repo once the repository is there and max_files is known
AnalizarCollected(registry, repo, max_files, got) ==
    [raised |-> FALSE, limit |-> max_files, files |-> got.archivos_codigo,
     ret |-> BuildMetrics(registry, repo, max_files, got)]

\* analizar_repo(repo_name), repo being what self.github.get_repo returns or
\* the GithubException it raises; a status other than 403 is raised again
analizar_repo(self, registry, repo) ==
    IF repo.status # 200
    THEN [raised |-> TRUE, limit |-> 0, files |-> <<>>, ret |-> None]
    ELSE CHOOSE done \in
            { AnalizarCollected(registry, repo, max_files, got) :
                max_files \in {_get_max_files_limit(self.config, repo.size)},
                got \in { IF repo.size > 30000
                          THEN CollectFast(repo.contents,
                                           _get_max_files_limit(self.config, repo.size))
                          ELSE CollectNormal(repo.contents, <<>>, 0,
                                             _get_max_files_limit(self.config, repo.size)) } }
            : TRUE

\* the while loop of get_code_files; a directory that cannot be listed
\* raises out of get_code_files
RECURSIVE CollectCodeFiles(_, _, _, _)
CollectCodeFiles(contents, code_files, files_count, max_files) ==
    IF contents = <<>> \/ ~(files_count < max_files)
    THEN [raised |-> FALSE, code_files |-> code_files]
    ELSE
      LET file_content == contents[1]
      IN  IF file_content.type = "dir"
          THEN IF file_content.listing = None
               THEN [raised |-> TRUE, code_files |-> <<>>]
               ELSE CollectCodeFiles(Tail(contents) \o file_content.listing[1],
                                     code_files, files_count, max_files)
          ELSE IF Collectable(file_content)
          THEN CollectCodeFiles(Tail(contents), Append(code_files, CodeFile(file_content)),
                                files_count + 1, max_files)
          ELSE CollectCodeFiles(Tail(contents), code_files, files_count, max_files)

\* get_code_files(repo_url) with the supported extensions
get_code_files(self, repo) ==
    IF repo.status # 200
    THEN [raised |-> TRUE, limit |-> 0, files |-> <<>>]
    ELSE
      LET max_files == _get_max_files_limit(self.config, repo.size)
          got == CollectCodeFiles(repo.contents, <<>>, 0, max_files)
      IN  [raised |-> got.raised, limit |-> max_files, files |-> got.code_files]

-----------------------------------------------------------------------------
(* A caller of one GitHubRepo instance *)

MaxListing == 3

\* a config.yaml with small limits at the thresholds of the default
SmallConfig ==
    [small_repos      |-> [max_files |-> 3, threshold_kb |-> 0],
     medium_repos     |-> [max_files |-> 2, threshold_kb |-> 10000],
     large_repos      |-> [max_files |-> 1, threshold_kb |-> 50000],
     very_large_repos |-> [max_files |-> 1, threshold_kb |-> 100000]]

GitConfigs == {DefaultConfig, SmallConfig}

\* repository sizes in KB, around every threshold
GitSizes == {0, 10000, 10001, 30000, 30001, 50000, 50001, 100000, 100001}

\* the sizes of the repositories analysed: normal strategy, fast strategy
RepoSizes == {10000, 30001, 100001}

Digits == <<"1", "2", "3", "4", "5", "6", "7", "8", "9">>

Ext_md == <<".", "m", "d">>

GitContent_half   == [nl |-> 2, base |-> "half",   tc |-> Rat(4, 5)]
GitContent_counts == [nl |-> 3, base |-> "counts", tc |-> RInt(0)]

GitFile(path, size, decodes, content) ==
    [type |-> "file", path |-> path, size |-> size, decodes |-> decodes,
     content |-> content]

GitDir(path, listing) == [type |-> "dir", path |-> path, listing |-> listing]

EntryKinds == {"ts", "md", "big", "undecodable", "dir2", "dir_err", "dir_deep"}

\* the entry of a kind at the place i of the root listing
EntryAt(i, kind) ==
    LET name == <<Digits[i]>>
    IN  CASE kind = "ts"  -> GitFile(name \o Ext_ts, 100, TRUE, GitContent_half)
          [] kind = "md"  -> GitFile(name \o Ext_md, 100, TRUE, GitContent_half)
          [] kind = "big" -> GitFile(name \o Ext_ts, 1024 * 1024 + 1, TRUE, GitContent_half)
          [] kind = "undecodable" -> GitFile(name \o Ext_ts, 100, FALSE, GitContent_half)
          [] kind = "dir2" ->
                GitDir(name, Some(<< GitFile(name \o <<"/", "1">> \o Ext_ts, 100, TRUE,
                                             GitContent_half),
                                     GitFile(name \o <<"/", "2">> \o Ext_ts, 100, TRUE,
                                             GitContent_counts) >>))
          [] kind = "dir_err" -> GitDir(name, None)
          [] kind = "dir_deep" ->
                GitDir(name, Some(<< GitDir(name \o <<"/", "1">>,
                                            Some(<< GitFile(name \o <<"/", "1", "/", "1">> \o Ext_ts,
                                                            100, TRUE, GitContent_counts) >>)),
                                     GitFile(name \o <<"/", "2">> \o Ext_ts, 100, TRUE,
                                             GitContent_half) >>))

\* the root listings of up to n entries
Listings(n) ==
    UNION { { [i \in 1..k |-> EntryAt(i, kinds[i])] : kinds \in [1..k -> EntryKinds] }
            : k \in 0..n }

\* what self.github.get_repo gives: a repository, or status 404
Repos ==
    { [status |-> 200, size |-> size, contents |-> contents] :
          size \in RepoSizes, contents \in Listings(MaxListing) }
    \cup { [status |-> 404] }

NoGitCall == [op |-> "none"]

\* repo.analizar_repo(repo_name)
AnalizarRepo(repo) ==
    /\ git_call = NoGitCall
    /\ \E done \in {analizar_repo(git, _analyzers, repo)} :
           git_call' = [op |-> "analizar_repo", repo |-> repo, raised |-> done.raised,
                        limit |-> done.limit, files |-> done.files, ret |-> done.ret]
    /\ UNCHANGED <<git, anVars, facVars, dupVars, cacheVars,
                   mgrVars, runVars, retryVars, chartVars>>

\* repo.get_code_files(repo_url)
GetCodeFiles(repo) ==
    /\ git_call = NoGitCall
    /\ LET done == get_code_files(git, repo)
       IN  git_call' = [op |-> "get_code_files", repo |-> repo, raised |-> done.raised,
                        limit |-> done.limit, files |-> done.files]
    /\ UNCHANGED <<git, anVars, facVars, dupVars, cacheVars,
                   mgrVars, runVars, retryVars, chartVars>>

\* the caller takes the result and goes on
GitReturn ==
    /\ git_call # NoGitCall
    /\ git_call' = NoGitCall
    /\ UNCHANGED <<git, anVars, facVars, dupVars, cacheVars,
                   mgrVars, runVars, retryVars, chartVars>>

GitNext ==
    \/ \E repo \in Repos : AnalizarRepo(repo)
    \/ \E repo \in Repos : GetCodeFiles(repo)
    \/ GitReturn

-----------------------------------------------------------------------------
(* Two CacheManager instances on one cache directory                       *)
(*                                                                         *)
(* Both instances are constructed on cache_dir with the same ttl_hours.    *)
(* A call advances by the file operations it makes, one per step: a test   *)
(* of os.path.exists, a file opened, read or written and closed again, an  *)
(* os.remove, an os.listdir.  Between two steps of one instance the other  *)
(* instance may take any number of its own.                                *)

Managers == {1, 2}

\* the identities the two instances work on: two different keys
SharedIds == { <<Repo_ab, None>>, <<Repo_ab, Some(Commit_c)>> }

ManagerOps == {"set", "get", "delete", "clear_all", "clear_expired"}

\* an instance outside any call
IdleManager ==
    [pc |-> "idle", op |-> "none", repo_name |-> <<>>, commit_hash |-> None,
     cache_key |-> <<>>, mode |-> "none", metadata |-> EmptyDict,
     expired_keys |-> {}, todo |-> {}]

\* where a call starts
FirstStep(op) ==
    CASE op = "set"           -> "set_write"
      [] op = "get"           -> "get_exists"
      [] op = "delete"        -> "delete_exists"
      [] op = "clear_all"     -> "clear_list"
      [] op = "clear_expired" -> "metadata_read"

\* the instance m enters set, get, delete, clear_all or clear_expired
Call(m, op, repo_name, commit_hash) ==
    /\ cache_ops < MaxCacheOps
    /\ managers[m].pc = "idle"
    /\ managers' = [managers EXCEPT ![m] =
                      [IdleManager EXCEPT
                          !.pc = FirstStep(op), !.op = op,
                          !.repo_name = repo_name, !.commit_hash = commit_hash,
                          !.cache_key = get_cache_key(repo_name, commit_hash),
                          !.mode = IF op = "clear_expired" THEN "expire" ELSE "none"]]
    /\ cache_ops' = cache_ops + 1
    /\ UNCHANGED <<cache, cache_dir, clock, cache_log, cache_call,
                   anVars, facVars, dupVars, gitVars, runVars, retryVars, chartVars>>

\* the instance m leaves its call
Leave(m) == [managers EXCEPT ![m] = IdleManager]

\* set: "with open(cache_path, 'w') as f: json.dump(cache_data, f)"; a
\* failure goes to the except of set, past _update_metadata
SetWrite(m) ==
    /\ managers[m].pc = "set_write"
    /\ \E dumped \in {JsonDump([timestamp   |-> IsoFormat(clock),
                               repo_name   |-> managers[m].repo_name,
                               commit_hash |-> managers[m].commit_hash,
                               data        |-> Some(Metrics(m))])} :
          /\ cache_dir' = [cache_dir EXCEPT
                              !.files = DictSet(@, managers[m].cache_key, dumped.text)]
          /\ managers' = IF dumped.raised THEN Leave(m)
                         ELSE [managers EXCEPT ![m].pc = "metadata_read",
                                               ![m].mode = "update"]
    /\ UNCHANGED <<cache, clock, cache_ops, cache_log, cache_call,
                   anVars, facVars, dupVars, gitVars, runVars, retryVars, chartVars>>

\* the keys clear_expired finds past the ttl in the metadata it has read:
\* expired_keys
ExpiredKeys(self, metadata, now) ==
    {k \in DOMAIN metadata : now - metadata[k].timestamp.t > self.ttl_hours}

\* _update_metadata, _remove_from_metadata, clear_expired:
\* "with open(metadata_path, 'r') as f: metadata = json.load(f)"
MetadataRead(m) ==
    /\ managers[m].pc = "metadata_read"
    /\ managers' = [managers EXCEPT
                      ![m].metadata = cache_dir.metadata,
                      ![m].expired_keys =
                          IF managers[m].mode = "expire"
                          THEN ExpiredKeys(cache, cache_dir.metadata, clock) ELSE {},
                      ![m].todo =
                          IF managers[m].mode = "expire"
                          THEN ExpiredKeys(cache, cache_dir.metadata, clock) ELSE {},
                      ![m].pc = IF managers[m].mode = "expire"
                                THEN "expired_remove" ELSE "metadata_write"]
    /\ UNCHANGED <<cache, cache_dir, clock, cache_ops, cache_log, cache_call,
                   anVars, facVars, dupVars, gitVars, runVars, retryVars, chartVars>>

\* the metadata an instance writes back: what it read, with its own change
MetadataToWrite(self, now) ==
    CASE self.mode = "update" ->
            DictSet(self.metadata, self.cache_key,
                    [repo_name   |-> self.repo_name,
                     commit_hash |-> self.commit_hash,
                     timestamp   |-> IsoFormat(now)])
      [] self.mode = "remove" -> RemoveKey(self.metadata, self.cache_key)
      [] self.mode = "expire" ->
            [k \in (DOMAIN self.metadata) \ self.expired_keys |-> self.metadata[k]]

\* "with open(metadata_path, 'w') as f: json.dump(metadata, f)"
MetadataWrite(m) ==
    /\ managers[m].pc = "metadata_write"
    /\ cache_dir' = [cache_dir EXCEPT !.metadata = MetadataToWrite(managers[m], clock)]
    /\ managers' = Leave(m)
    /\ UNCHANGED <<cache, clock, cache_ops, cache_log, cache_call,
                   anVars, facVars, dupVars, gitVars, runVars, retryVars, chartVars>>

\* delete: "if os.path.exists(cache_path):"
DeleteExists(m) ==
    /\ managers[m].pc = "delete_exists"
    /\ managers' = IF managers[m].cache_key \in DOMAIN cache_dir.files
                   THEN [managers EXCEPT ![m].pc = "delete_remove"]
                   ELSE [managers EXCEPT ![m].pc = "metadata_read",
                                         ![m].mode = "remove"]
    /\ UNCHANGED <<cache, cache_dir, clock, cache_ops, cache_log, cache_call,
                   anVars, facVars, dupVars, gitVars, runVars, retryVars, chartVars>>

\* delete: "os.remove(cache_path)"; with the file gone in the meantime it
\* raises FileNotFoundError out of delete, past _remove_from_metadata
DeleteRemove(m) ==
    /\ managers[m].pc = "delete_remove"
    /\ IF managers[m].cache_key \in DOMAIN cache_dir.files
       THEN /\ cache_dir' = [cache_dir EXCEPT
                                !.files = RemoveKey(@, managers[m].cache_key)]
            /\ managers' = [managers EXCEPT ![m].pc = "metadata_read",
                                            ![m].mode = "remove"]
       ELSE /\ cache_dir' = cache_dir
            /\ managers' = Leave(m)
    /\ UNCHANGED <<cache, clock, cache_ops, cache_log, cache_call,
                   anVars, facVars, dupVars, gitVars, runVars, retryVars, chartVars>>

\* get: "if not os.path.exists(cache_path): return None"
GetExists(m) ==
    /\ managers[m].pc = "get_exists"
    /\ managers' = IF managers[m].cache_key \in DOMAIN cache_dir.files
                   THEN [managers EXCEPT ![m].pc = "get_read"]
                   ELSE Leave(m)
    /\ UNCHANGED <<cache, cache_dir, clock, cache_ops, cache_log, cache_call,
                   anVars, facVars, dupVars, gitVars, runVars, retryVars, chartVars>>

\* get: the entry file is opened and loaded; an expired entry goes on to
\* self.delete, anything else returns
GetRead(m) ==
    /\ managers[m].pc = "get_read"
    /\ managers' =
          IF managers[m].cache_key \notin DOMAIN cache_dir.files THEN Leave(m)
          ELSE LET read == ReadEntry(cache, cache_dir.files[managers[m].cache_key], clock)
               IN  IF ~read.raised /\ read.expired
                   THEN [managers EXCEPT ![m].pc = "delete_exists"]
                   ELSE Leave(m)
    /\ UNCHANGED <<cache, cache_dir, clock, cache_ops, cache_log, cache_call,
                   anVars, facVars, dupVars, gitVars, runVars, retryVars, chartVars>>

\* clear_all: "for filename in os.listdir(self.cache_dir)"
ClearList(m) ==
    /\ managers[m].pc = "clear_list"
    /\ managers' = [managers EXCEPT ![m].todo = DOMAIN cache_dir.files,
                                    ![m].pc = "clear_remove"]
    /\ UNCHANGED <<cache, cache_dir, clock, cache_ops, cache_log, cache_call,
                   anVars, facVars, dupVars, gitVars, runVars, retryVars, chartVars>>

\* clear_all: os.remove of the next listed entry file, in the order of the
\* listing, which is any; FileNotFoundError leaves clear_all
ClearRemove(m) ==
    /\ managers[m].pc = "clear_remove"
    /\ IF managers[m].todo = {}
       THEN /\ cache_dir' = cache_dir
            /\ managers' = [managers EXCEPT ![m].pc = "clear_metadata"]
       ELSE \E k \in managers[m].todo :
              IF k \in DOMAIN cache_dir.files
              THEN /\ cache_dir' = [cache_dir EXCEPT !.files = RemoveKey(@, k)]
                   /\ managers' = [managers EXCEPT ![m].todo = @ \ {k}]
              ELSE /\ cache_dir' = cache_dir
                   /\ managers' = Leave(m)
    /\ UNCHANGED <<cache, clock, cache_ops, cache_log, cache_call,
                   anVars, facVars, dupVars, gitVars, runVars, retryVars, chartVars>>

\* clear_all: metadata.json is written anew as {}
ClearMetadata(m) ==
    /\ managers[m].pc = "clear_metadata"
    /\ cache_dir' = [cache_dir EXCEPT !.metadata = EmptyDict]
    /\ managers' = Leave(m)
    /\ UNCHANGED <<cache, clock, cache_ops, cache_log, cache_call,
                   anVars, facVars, dupVars, gitVars, runVars, retryVars, chartVars>>

\* clear_expired: the entry file of the next expired key is removed if it
\* exists; then the metadata is written back
ExpiredRemove(m) ==
    /\ managers[m].pc = "expired_remove"
    /\ IF managers[m].todo = {}
       THEN /\ cache_dir' = cache_dir
            /\ managers' = [managers EXCEPT ![m].pc = "metadata_write"]
       ELSE \E k \in managers[m].todo :
              /\ cache_dir' = [cache_dir EXCEPT !.files = RemoveKey(@, k)]
              /\ managers' = [managers EXCEPT ![m].todo = @ \ {k}]
    /\ UNCHANGED <<cache, clock, cache_ops, cache_log, cache_call,
                   anVars, facVars, dupVars, gitVars, runVars, retryVars, chartVars>>

ManagersNext ==
    \/ \E m \in Managers, op \in ManagerOps, id \in SharedIds :
          Call(m, op, id[1], id[2])
    \/ \E m \in Managers : SetWrite(m)
    \/ \E m \in Managers : MetadataRead(m)
    \/ \E m \in Managers : MetadataWrite(m)
    \/ \E m \in Managers : DeleteExists(m)
    \/ \E m \in Managers : DeleteRemove(m)
    \/ \E m \in Managers : GetExists(m)
    \/ \E m \in Managers : GetRead(m)
    \/ \E m \in Managers : ClearList(m)
    \/ \E m \in Managers : ClearRemove(m)
    \/ \E m \in Managers : ClearMetadata(m)
    \/ \E m \in Managers : ExpiredRemove(m)
    \/ Tick

-----------------------------------------------------------------------------
(* Two analyze_multi_language_project runs at once                         *)
(*                                                                         *)
(* Each run is a call of the classmethod on its own thread.  Its locals    *)
(* (results, language_files, analyzer) are its own; the analyzer instances *)
(* live on the heap, which both runs share, as they share _analyzers and   *)
(* _extension_map, neither of which the method writes.  A run advances by  *)
(* one file of the grouping loop, or by one call on an analyzer, per step. *)

Runs == {1, 2}

MaxRunFiles == 2

\* the file maps the two runs are given
RunPaths    == {Path_a_py, Path_b_PY, Path_c_ts}
RunContents == { [nl |-> 2, base |-> "one", tc |-> Rat(4, 5)] }

\* a thread that has not called the method yet
IdleRun ==
    [pc |-> "idle", files |-> <<>>, todo |-> <<>>, language_files |-> <<>>,
     k |-> 0, ref |-> None, languages |-> <<>>, during |-> FALSE, out |-> None]

\* analyzer_class() giving every run the one instance of the class made first
ConstructAnalyzer_one_per_class(h, r, n, cls) ==
    IF \E a \in DOMAIN h : h[a].cls = cls
    THEN [heap |-> h, ref |-> CHOOSE a \in DOMAIN h : h[a].cls = cls]
    ELSE [heap |-> DictSet(h, <<r, n>>, NewAnalyzer(cls)), ref |-> <<r, n>>]

\* "return analyzer_class()" of get_analyzer: a new instance at an address
\* not in use, here the n-th of run r
ConstructAnalyzer(h, r, n, cls) ==
    [heap |-> DictSet(h, <<r, n>>, NewAnalyzer(cls)), ref |-> <<r, n>>]

\* the thread r calls analyze_multi_language_project(files)
RunStart(r, files) ==
    /\ runs[r].pc = "idle"
    /\ runs' = [runs EXCEPT ![r] =
                  [IdleRun EXCEPT
                      !.pc = "group", !.files = files, !.todo = files,
                      !.during = \E o \in Runs \ {r} :
                                    runs[o].pc \notin {"idle", "done"}]]
    /\ UNCHANGED <<heap, anVars, facVars, dupVars, cacheVars, gitVars,
                   mgrVars, retryVars, chartVars>>

\* one pass of "for file_path, content in files.items()": the analyzer that
\* get_analyzer_for_file constructs is asked its language name and dropped
RunGroup(r) ==
    /\ runs[r].pc = "group"
    /\ runs' = IF runs[r].todo = <<>>
               THEN [runs EXCEPT ![r].pc = "get_analyzer", ![r].k = 1]
               ELSE [runs EXCEPT
                        ![r].language_files =
                            GroupFiles(_analyzers, @, <<runs[r].todo[1]>>),
                        ![r].todo = Tail(@)]
    /\ UNCHANGED <<heap, anVars, facVars, dupVars, cacheVars, gitVars,
                   mgrVars, retryVars, chartVars>>

\* "for language, lang_files in language_files.items():
\*      analyzer = cls.get_analyzer(language.lower())"
RunGetAnalyzer(r) ==
    /\ runs[r].pc = "get_analyzer"
    /\ IF runs[r].k > Len(runs[r].language_files)
       THEN /\ runs' = [runs EXCEPT ![r].pc = "finish"]
            /\ heap' = heap
       ELSE LET language == Lower(runs[r].language_files[runs[r].k].language)
            IN  IF language \in DOMAIN _analyzers
                THEN \E made \in {ConstructAnalyzer(heap, r, runs[r].k,
                                                    _analyzers[language])} :
                        /\ heap' = made.heap
                        /\ runs' = [runs EXCEPT ![r].ref = Some(made.ref),
                                                ![r].pc = "analyze_files"]
                ELSE /\ heap' = heap
                     /\ runs' = [runs EXCEPT ![r].k = @ + 1]
    /\ UNCHANGED <<anVars, facVars, dupVars, cacheVars, gitVars,
                   mgrVars, retryVars, chartVars>>

\* "metrics = analyzer.analyze_files(lang_files)": metrics is self.metrics
\* of the instance, the same object
RunAnalyzeFiles(r) ==
    /\ runs[r].pc = "analyze_files"
    /\ heap' = [heap EXCEPT ![runs[r].ref[1]] =
                  analyze_files(@, runs[r].language_files[runs[r].k].files).self]
    /\ runs' = [runs EXCEPT ![r].pc = "get_summary"]
    /\ UNCHANGED <<anVars, facVars, dupVars, cacheVars, gitVars,
                   mgrVars, retryVars, chartVars>>

\* "results['languages'][language] = {'metrics': metrics,
\*      'summary': analyzer.get_summary(), ..., 'file_count': len(lang_files)}"
RunGetSummary(r) ==
    /\ runs[r].pc = "get_summary"
    /\ runs' = [runs EXCEPT
                  ![r].languages =
                      Append(@, [language   |-> runs[r].language_files[runs[r].k].language,
                                 metrics    |-> runs[r].ref[1],
                                 summary    |-> get_summary(heap[runs[r].ref[1]]),
                                 file_count |-> Len(runs[r].language_files[runs[r].k].files)]),
                  ![r].ref = None,
                  ![r].k = @ + 1,
                  ![r].pc = "get_analyzer"]
    /\ UNCHANGED <<heap, anVars, facVars, dupVars, cacheVars, gitVars,
                   mgrVars, retryVars, chartVars>>

\* "Determine primary language", "Calculate aggregate metrics", "return
\* results"; the caller reads the metrics objects the results refer to
RunFinish(r) ==
    /\ runs[r].pc = "finish"
    /\ \E languages \in {[i \in 1..Len(runs[r].languages) |->
                            [runs[r].languages[i] EXCEPT !.metrics = heap[@].metrics]]} :
          runs' = [runs EXCEPT
                     ![r].pc = "done",
                     ![r].out =
                        Some([language_files   |-> runs[r].language_files,
                              languages        |-> languages,
                              primary_language |->
                                  IF runs[r].language_files # <<>>
                                  THEN Some(PrimaryOf(runs[r].language_files))
                                  ELSE None,
                              total_metrics    |->
                                  _calculate_aggregate_metrics(languages)])]
    /\ UNCHANGED <<heap, anVars, facVars, dupVars, cacheVars, gitVars,
                   mgrVars, retryVars, chartVars>>

RunsNext ==
    \/ \E r \in Runs, files \in FileMaps(RunPaths, RunContents, MaxRunFiles) :
          RunStart(r, files)
    \/ \E r \in Runs : RunGroup(r)
    \/ \E r \in Runs : RunGetAnalyzer(r)
    \/ \E r \in Runs : RunAnalyzeFiles(r)
    \/ \E r \in Runs : RunGetSummary(r)
    \/ \E r \in Runs : RunFinish(r)

-----------------------------------------------------------------------------
(* analizar_repo against a GitHub API that answers 403                      *)
(*                                                                         *)
(* The try block of analizar_repo ends in one of four ways: it returns the *)
(* metrics, it raises GithubException with status 403, it raises another   *)
(* GithubException, or it raises any other exception.  On 403 the handler  *)
(* calls esperar_reset_rate_limit and then analizar_repo again, from       *)
(* inside the handler, so every retry is one more frame on the stack; the  *)
(* interpreter raises RecursionError once the stack holds RecursionLimit   *)
(* frames (1000 in CPython unless changed, and the program does not).      *)

RecursionLimit == 5

\* (reset_time - current_time).total_seconds(), in half seconds: in the
\* past, now, and ahead by half a second and by a second and a half
WaitTimes == {-2, 0, 1, 3}

\* the seconds slept are counted up to MaxSlept
MaxSlept == 6

NoRetry == [pc |-> "idle", depth |-> 0, wait_time |-> 0, slept |-> 0, ret |-> "none"]

\* how the try block of one frame can end
TryOutcomes == {"metrics", "403", "GithubException", "Exception"}

\* a retry made by a loop in the frame that caught the 403
Retry_in_the_same_frame(self) == [self EXCEPT !.pc = "try", !.wait_time = 0]

\* "return self.analizar_repo(repo_name)" in the handler of the 403
Retry(self) == [self EXCEPT !.pc = "try", !.depth = @ + 1, !.wait_time = 0]

\* the caller calls analizar_repo(repo_name)
RetryCall ==
    /\ git_retry.pc = "idle"
    /\ git_retry' = [NoRetry EXCEPT !.pc = "try", !.depth = 1]
    /\ UNCHANGED <<anVars, facVars, dupVars, cacheVars, gitVars,
                   mgrVars, runVars, chartVars>>

\* the try block of the innermost frame.  With the stack full the first
\* call in it raises RecursionError: in the try block, where "except
\* Exception" turns it into None, or in a handler, where it gets out
RetryTry ==
    /\ git_retry.pc = "try"
    /\ IF git_retry.depth >= RecursionLimit
       THEN \E ret \in {"None", "raised"} :
               git_retry' = [git_retry EXCEPT !.pc = "done", !.ret = ret]
       ELSE \E o \in TryOutcomes :
               git_retry' =
                  CASE o = "metrics"         -> [git_retry EXCEPT !.pc = "done", !.ret = "metrics"]
                    [] o = "403"             -> [git_retry EXCEPT !.pc = "get_rate_limit"]
                    [] o = "GithubException" -> [git_retry EXCEPT !.pc = "done", !.ret = "raised"]
                    [] o = "Exception"       -> [git_retry EXCEPT !.pc = "done", !.ret = "None"]
    /\ UNCHANGED <<anVars, facVars, dupVars, cacheVars, gitVars,
                   mgrVars, runVars, chartVars>>

\* esperar_reset_rate_limit: get_rate_limit answers with a reset time, or
\* raises, out of the handler and out of every frame; "if wait_time > 0"
RetryGetRateLimit ==
    /\ git_retry.pc = "get_rate_limit"
    /\ \/ git_retry' = [git_retry EXCEPT !.pc = "done", !.ret = "raised"]
       \/ \E wait_time \in WaitTimes :
             git_retry' = IF wait_time > 0
                          THEN [git_retry EXCEPT !.pc = "sleep", !.wait_time = wait_time]
                          ELSE Retry(git_retry)
    /\ UNCHANGED <<anVars, facVars, dupVars, cacheVars, gitVars,
                   mgrVars, runVars, chartVars>>

\* "while wait_time > 0: time.sleep(1); wait_time -= 1", then the retry
RetrySleep ==
    /\ git_retry.pc = "sleep"
    /\ git_retry' = IF git_retry.wait_time > 0
                    THEN [git_retry EXCEPT !.wait_time = @ - 2,
                                           !.slept = Min(@ + 1, MaxSlept)]
                    ELSE Retry(git_retry)
    /\ UNCHANGED <<anVars, facVars, dupVars, cacheVars, gitVars,
                   mgrVars, runVars, chartVars>>

\* the caller has the result, or the exception
RetryReturn ==
    /\ git_retry.pc = "done"
    /\ git_retry' = NoRetry
    /\ UNCHANGED <<anVars, facVars, dupVars, cacheVars, gitVars,
                   mgrVars, runVars, chartVars>>

\* the steps of a call under way
RetryStep == RetryTry \/ RetryGetRateLimit \/ RetrySleep

RetryNext ==
    \/ RetryCall
    \/ RetryTry
    \/ RetryGetRateLimit
    \/ RetrySleep
    \/ RetryReturn

-----------------------------------------------------------------------------
(* ChartGenerator (exporters/charts.py)                                    *)
(*                                                                         *)
(* A chart is the labels and the datasets that the generated page hands to *)
(* Chart.js, which draws the i-th data point of every dataset at the i-th  *)
(* label.  json.dumps writes a label as a JavaScript string literal (with  *)
(* \u escapes for the letters outside ASCII), which the browser reads back *)
(* as the label; labels are written here without the accent.               *)

\* exporters/base.py
CATEGORIAS ==
    << "nombres", "documentacion", "modularidad", "complejidad",
       "manejo_errores", "pruebas", "consistencia_estilo", "seguridad" >>

CATEGORIAS_LABELS ==
    << "NOMBRES", "DOCUMENTACION", "MODULARIDAD", "COMPLEJIDAD",
       "MANEJO ERRORES", "PRUEBAS", "SEGURIDAD", "CONSISTENCIA" >>

\* "round(score * 100, 2) if score else 0" of
\* score = data.get(cat, {}).get('score', 0)
CategoryScore(data, cat) ==
    LET score == DictGet(DictGet(data, cat, EmptyDict), "score", RInt(0))
    IN  IF score # RInt(0) THEN Round2(RMul(score, RInt(100))) ELSE RInt(0)

\* metricas.get('repos', {}).get(repo, {})
RepoData(metricas, repo) ==
    DictGet(DictGet(metricas, "repos", EmptyDict), repo, EmptyDict)

\* _get_scores(metricas): [empresa, candidato], a score per entry of CATEGORIAS
_get_scores(metricas) ==
    [empresa   |-> [i \in 1..Len(CATEGORIAS) |->
                      CategoryScore(RepoData(metricas, "empresa"), CATEGORIAS[i])],
     candidato |-> [i \in 1..Len(CATEGORIAS) |->
                      CategoryScore(RepoData(metricas, "candidato"), CATEGORIAS[i])]]

\* abs(e - c)
RAbsDiff(e, c) ==
    IF RLeq(c, e) THEN RAdd(e, RMul(RInt(-1), c)) ELSE RAdd(c, RMul(RInt(-1), e))

\* the labels and datasets of generar_radar and of generar_barras
generar_radar(metricas) ==
    LET scores == _get_scores(metricas)
    IN  [labels    |-> CATEGORIAS_LABELS,
         empresa   |-> scores.empresa,
         candidato |-> scores.candidato]

\* the labels and datasets of generar_categorias
generar_categorias(metricas) ==
    LET scores == _get_scores(metricas)
    IN  [labels      |-> CATEGORIAS_LABELS,
         empresa     |-> scores.empresa,
         candidato   |-> scores.candidato,
         diferencias |-> [i \in 1..Len(CATEGORIAS) |->
                            RAbsDiff(scores.empresa[i], scores.candidato[i])]]

-----------------------------------------------------------------------------
(* A caller of ChartGenerator *)

\* the categories whose entries vary over the calls, and what an entry holds
ChartCats    == {"nombres", "consistencia_estilo", "seguridad"}
ChartScores  == {RInt(0), Rat(1, 3), RInt(1)}
ChartEntries == {EmptyDict} \cup {[score |-> x] : x \in ChartScores}

\* the metrics of one repository: any of the categories may be missing
ChartRepos == UNION { [present -> ChartEntries] : present \in SUBSET ChartCats }

\* arguments of the generators; 'repos' may be missing
ChartMetricas ==
    {EmptyDict} \cup
    { [repos |-> [empresa |-> e, candidato |-> c]] :
         e \in ChartRepos, c \in {d \in ChartRepos : DOMAIN d \subseteq {"seguridad"}} }

NoChartCall == [op |-> "none"]

\* ChartGenerator().generar_radar(metricas, timestamp)
GenerarRadar(metricas) ==
    /\ chart_call = NoChartCall
    /\ chart_call' = [op |-> "generar_radar", metricas |-> metricas,
                      chart |-> generar_radar(metricas)]
    /\ UNCHANGED <<anVars, facVars, dupVars, cacheVars, gitVars,
                   mgrVars, runVars, retryVars>>

\* ChartGenerator().generar_barras(metricas, timestamp)
GenerarBarras(metricas) ==
    /\ chart_call = NoChartCall
    /\ chart_call' = [op |-> "generar_barras", metricas |-> metricas,
                      chart |-> generar_radar(metricas)]
    /\ UNCHANGED <<anVars, facVars, dupVars, cacheVars, gitVars,
                   mgrVars, runVars, retryVars>>

\* ChartGenerator().generar_categorias(metricas, timestamp)
GenerarCategorias(metricas) ==
    /\ chart_call = NoChartCall
    /\ chart_call' = [op |-> "generar_categorias", metricas |-> metricas,
                      chart |-> generar_categorias(metricas)]
    /\ UNCHANGED <<anVars, facVars, dupVars, cacheVars, gitVars,
                   mgrVars, runVars, retryVars>>

\* the caller takes the page and goes on
ChartReturn ==
    /\ chart_call # NoChartCall
    /\ chart_call' = NoChartCall
    /\ UNCHANGED <<anVars, facVars, dupVars, cacheVars, gitVars,
                   mgrVars, runVars, retryVars>>

ChartNext ==
    \/ \E metricas \in ChartMetricas : GenerarRadar(metricas)
    \/ \E metricas \in ChartMetricas : GenerarBarras(metricas)
    \/ \E metricas \in ChartMetricas : GenerarCategorias(metricas)
    \/ ChartReturn

-----------------------------------------------------------------------------
(* Specifications *)

\* one LanguageAnalyzer instance under any sequence of analyze_files calls
InitAnalyzer ==
    /\ analyzer \in {NewAnalyzer(c) : c \in AnClasses}
    /\ an_files = <<>>
    /\ an_ret = NoReturn
    /\ an_calls = 0
    /\ _analyzers = DefaultAnalyzers
    /\ fac_regs = 0
    /\ fac_call = NoCall
    /\ dup = [min_block_size |-> DefaultMinBlockSize, ignore_whitespace |-> TRUE]
    /\ dup_call = [pc |-> "idle"]
    /\ cache = [ttl_hours |-> 1]
    /\ cache_dir = [files |-> EmptyDict, metadata |-> EmptyDict]
    /\ clock = 0
    /\ cache_ops = 0
    /\ cache_log = [id \in CacheIds |-> None]
    /\ cache_call = NoCacheCall
    /\ git = [config |-> DefaultConfig]
    /\ git_call = NoGitCall
    /\ managers = [m \in Managers |-> IdleManager]
    /\ heap = EmptyDict
    /\ runs = [r \in Runs |-> IdleRun]
    /\ git_retry = NoRetry
    /\ chart_call = NoChartCall

SpecAnalyzer == InitAnalyzer /\ [][AnNext]_vars

\* the factory under register_analyzer, lookups and project analyses
InitFactory ==
    /\ _analyzers = DefaultAnalyzers
    /\ fac_regs = 0
    /\ fac_call = NoCall
    /\ analyzer = NewAnalyzer("TypeScriptAnalyzer")
    /\ an_files = <<>>
    /\ an_ret = NoReturn
    /\ an_calls = 0
    /\ dup = [min_block_size |-> DefaultMinBlockSize, ignore_whitespace |-> TRUE]
    /\ dup_call = [pc |-> "idle"]
    /\ cache = [ttl_hours |-> 1]
    /\ cache_dir = [files |-> EmptyDict, metadata |-> EmptyDict]
    /\ clock = 0
    /\ cache_ops = 0
    /\ cache_log = [id \in CacheIds |-> None]
    /\ cache_call = NoCacheCall
    /\ git = [config |-> DefaultConfig]
    /\ git_call = NoGitCall
    /\ managers = [m \in Managers |-> IdleManager]
    /\ heap = EmptyDict
    /\ runs = [r \in Runs |-> IdleRun]
    /\ git_retry = NoRetry
    /\ chart_call = NoChartCall

SpecFactory == InitFactory /\ [][FacNext]_vars

\* one DuplicationAnalyzer(min_block_size, ignore_whitespace) under
\* find_duplicates calls
InitDup ==
    /\ dup \in [min_block_size : DupSizes, ignore_whitespace : BOOLEAN]
    /\ dup_call = [pc |-> "idle"]
    /\ analyzer = NewAnalyzer("TypeScriptAnalyzer")
    /\ an_files = <<>>
    /\ an_ret = NoReturn
    /\ an_calls = 0
    /\ _analyzers = DefaultAnalyzers
    /\ fac_regs = 0
    /\ fac_call = NoCall
    /\ cache = [ttl_hours |-> 1]
    /\ cache_dir = [files |-> EmptyDict, metadata |-> EmptyDict]
    /\ clock = 0
    /\ cache_ops = 0
    /\ cache_log = [id \in CacheIds |-> None]
    /\ cache_call = NoCacheCall
    /\ git = [config |-> DefaultConfig]
    /\ git_call = NoGitCall
    /\ managers = [m \in Managers |-> IdleManager]
    /\ heap = EmptyDict
    /\ runs = [r \in Runs |-> IdleRun]
    /\ git_retry = NoRetry
    /\ chart_call = NoChartCall

SpecDup == InitDup /\ [][DupNext]_vars

\* one CacheManager(ttl_hours=...) on an empty directory with one
\* CachedAnalyzer on it, under any calls while the hours go by
InitCache ==
    /\ cache \in [ttl_hours : CacheTtls]
    /\ cache_dir = [files |-> EmptyDict, metadata |-> EmptyDict]
    /\ clock = 0
    /\ cache_ops = 0
    /\ cache_log = [id \in CacheIds |-> None]
    /\ cache_call = NoCacheCall
    /\ git = [config |-> DefaultConfig]
    /\ git_call = NoGitCall
    /\ managers = [m \in Managers |-> IdleManager]
    /\ heap = EmptyDict
    /\ runs = [r \in Runs |-> IdleRun]
    /\ git_retry = NoRetry
    /\ chart_call = NoChartCall
    /\ analyzer = NewAnalyzer("TypeScriptAnalyzer")
    /\ an_files = <<>>
    /\ an_ret = NoReturn
    /\ an_calls = 0
    /\ _analyzers = DefaultAnalyzers
    /\ fac_regs = 0
    /\ fac_call = NoCall
    /\ dup = [min_block_size |-> DefaultMinBlockSize, ignore_whitespace |-> TRUE]
    /\ dup_call = [pc |-> "idle"]

SpecCache == InitCache /\ [][CacheNext]_vars

\* one GitHubRepo, with the default or a small config.yaml, under
\* analizar_repo and get_code_files calls on any repository
InitGit ==
    /\ git \in [config : GitConfigs]
    /\ git_call = NoGitCall
    /\ managers = [m \in Managers |-> IdleManager]
    /\ heap = EmptyDict
    /\ runs = [r \in Runs |-> IdleRun]
    /\ git_retry = NoRetry
    /\ chart_call = NoChartCall
    /\ analyzer = NewAnalyzer("TypeScriptAnalyzer")
    /\ an_files = <<>>
    /\ an_ret = NoReturn
    /\ an_calls = 0
    /\ _analyzers = DefaultAnalyzers
    /\ fac_regs = 0
    /\ fac_call = NoCall
    /\ dup = [min_block_size |-> DefaultMinBlockSize, ignore_whitespace |-> TRUE]
    /\ dup_call = [pc |-> "idle"]
    /\ cache = [ttl_hours |-> 1]
    /\ cache_dir = [files |-> EmptyDict, metadata |-> EmptyDict]
    /\ clock = 0
    /\ cache_ops = 0
    /\ cache_log = [id \in CacheIds |-> None]
    /\ cache_call = NoCacheCall

SpecGit == InitGit /\ [][GitNext]_vars

\* two CacheManager instances whose calls interleave step by step
InitManagers ==
    /\ analyzer = NewAnalyzer("TypeScriptAnalyzer")
    /\ an_files = <<>>
    /\ an_ret = NoReturn
    /\ an_calls = 0
    /\ _analyzers = DefaultAnalyzers
    /\ fac_regs = 0
    /\ fac_call = NoCall
    /\ dup = [min_block_size |-> DefaultMinBlockSize, ignore_whitespace |-> TRUE]
    /\ dup_call = [pc |-> "idle"]
    /\ cache \in [ttl_hours : CacheTtls]
    /\ cache_dir = [files |-> EmptyDict, metadata |-> EmptyDict]
    /\ clock = 0
    /\ cache_ops = 0
    /\ cache_log = [id \in CacheIds |-> None]
    /\ cache_call = NoCacheCall
    /\ git = [config |-> DefaultConfig]
    /\ git_call = NoGitCall
    /\ managers = [m \in Managers |-> IdleManager]
    /\ heap = EmptyDict
    /\ runs = [r \in Runs |-> IdleRun]
    /\ git_retry = NoRetry
    /\ chart_call = NoChartCall

SpecManagers == InitManagers /\ [][ManagersNext]_vars

\* two threads, each calling analyze_multi_language_project once on the
\* registry as the class defines it
InitRuns ==
    /\ analyzer = NewAnalyzer("TypeScriptAnalyzer")
    /\ an_files = <<>>
    /\ an_ret = NoReturn
    /\ an_calls = 0
    /\ _analyzers = DefaultAnalyzers
    /\ fac_regs = 0
    /\ fac_call = NoCall
    /\ dup = [min_block_size |-> DefaultMinBlockSize, ignore_whitespace |-> TRUE]
    /\ dup_call = [pc |-> "idle"]
    /\ cache = [ttl_hours |-> 1]
    /\ cache_dir = [files |-> EmptyDict, metadata |-> EmptyDict]
    /\ clock = 0
    /\ cache_ops = 0
    /\ cache_log = [id \in CacheIds |-> None]
    /\ cache_call = NoCacheCall
    /\ git = [config |-> DefaultConfig]
    /\ git_call = NoGitCall
    /\ managers = [m \in Managers |-> IdleManager]
    /\ heap = EmptyDict
    /\ runs = [r \in Runs |-> IdleRun]
    /\ git_retry = NoRetry
    /\ chart_call = NoChartCall

SpecRuns == InitRuns /\ [][RunsNext]_vars

\* one thread calling analizar_repo; the thread keeps running, so a call
\* under way always takes its next step
InitRetry ==
    /\ analyzer = NewAnalyzer("TypeScriptAnalyzer")
    /\ an_files = <<>>
    /\ an_ret = NoReturn
    /\ an_calls = 0
    /\ _analyzers = DefaultAnalyzers
    /\ fac_regs = 0
    /\ fac_call = NoCall
    /\ dup = [min_block_size |-> DefaultMinBlockSize, ignore_whitespace |-> TRUE]
    /\ dup_call = [pc |-> "idle"]
    /\ cache = [ttl_hours |-> 1]
    /\ cache_dir = [files |-> EmptyDict, metadata |-> EmptyDict]
    /\ clock = 0
    /\ cache_ops = 0
    /\ cache_log = [id \in CacheIds |-> None]
    /\ cache_call = NoCacheCall
    /\ git = [config |-> DefaultConfig]
    /\ git_call = NoGitCall
    /\ managers = [m \in Managers |-> IdleManager]
    /\ heap = EmptyDict
    /\ runs = [r \in Runs |-> IdleRun]
    /\ git_retry = NoRetry
    /\ chart_call = NoChartCall

SpecRetry == InitRetry /\ [][RetryNext]_vars /\ WF_vars(RetryStep)

\* a caller of the three generators
InitChart ==
    /\ analyzer = NewAnalyzer("TypeScriptAnalyzer")
    /\ an_files = <<>>
    /\ an_ret = NoReturn
    /\ an_calls = 0
    /\ _analyzers = DefaultAnalyzers
    /\ fac_regs = 0
    /\ fac_call = NoCall
    /\ dup = [min_block_size |-> DefaultMinBlockSize, ignore_whitespace |-> TRUE]
    /\ dup_call = [pc |-> "idle"]
    /\ cache = [ttl_hours |-> 1]
    /\ cache_dir = [files |-> EmptyDict, metadata |-> EmptyDict]
    /\ clock = 0
    /\ cache_ops = 0
    /\ cache_log = [id \in CacheIds |-> None]
    /\ cache_call = NoCacheCall
    /\ git = [config |-> DefaultConfig]
    /\ git_call = NoGitCall
    /\ managers = [m \in Managers |-> IdleManager]
    /\ heap = EmptyDict
    /\ runs = [r \in Runs |-> IdleRun]
    /\ git_retry = NoRetry
    /\ chart_call = NoChartCall

SpecChart == InitChart /\ [][ChartNext]_vars

-----------------------------------------------------------------------------
(* Properties of AnalyzerFactory, checked under SpecFactory *)

\* the extension of a path is one _extension_map knows
KnownExtension(path) == Lower(SplitExt(path)) \in DOMAIN _extension_map

\* C1: once register_analyzer has registered the analyzer of a new language
\* whose extension is .xyz, get_analyzer_for_file('foo.xyz') returns an
\* instance of that analyzer.
C1_RegisteredExtensionResolves ==
    (\E name \in DOMAIN _analyzers : _analyzers[name] = "XyzAnalyzer") =>
        LET out == get_analyzer_for_file(_analyzers, Path_foo_xyz)
        IN  /\ ~out.raised
            /\ out.ret # None
            /\ out.ret[1].cls = "XyzAnalyzer"

\* C9: whenever analyze_multi_language_project is given at least one file
\* the factory recognizes, total_metrics.overall_empathy_score is the sum over
\* the analyzed languages of empathy_score * file_count / total, the total
\* of the file counts is not zero, and the result lies between the smallest
\* and the largest per-language score.
C9_OverallScoreIsWeightedMean ==
    ( /\ fac_call.op = "analyze_multi_language_project"
      /\ \E i \in 1..Len(fac_call.files) :
            get_analyzer_for_file(_analyzers, fac_call.files[i].path).ret # None ) =>
        LET L       == fac_call.out.languages
            tm      == fac_call.out.total_metrics
            total   == ISum([i \in 1..Len(L) |-> L[i].file_count])
            score(i) == L[i].summary.empathy_score
        IN  /\ "overall_empathy_score" \in DOMAIN tm
            /\ total > 0
            /\ tm.overall_empathy_score =
                   RDivInt(RSum([i \in 1..Len(L) |-> RMul(score(i), RInt(L[i].file_count))]),
                           total)
            /\ \E i \in 1..Len(L) : RLeq(score(i), tm.overall_empathy_score)
            /\ \E i \in 1..Len(L) : RLeq(tm.overall_empathy_score, score(i))

\* C10: in every state of the registry that register_analyzer calls reach,
\* get_analyzer of a name that is not registered and get_analyzer_for_file
\* of a path whose extension is not known return None and raise nothing, and
\* analyze_multi_language_project puts a file of an unknown extension into
\* no language's file set.
C10_UnknownYieldsNone ==
    /\ ( /\ fac_call.op = "get_analyzer"
         /\ Lower(fac_call.language) \notin DOMAIN _analyzers )
           => fac_call.out = [raised |-> FALSE, ret |-> None]
    /\ ( /\ fac_call.op = "get_analyzer_for_file"
         /\ ~KnownExtension(fac_call.path) )
           => fac_call.out = [raised |-> FALSE, ret |-> None]
    /\ fac_call.op = "analyze_multi_language_project" =>
           \A i \in 1..Len(fac_call.files) :
               ~KnownExtension(fac_call.files[i].path) =>
                   \A g \in 1..Len(fac_call.out.language_files) :
                       \A k \in 1..Len(fac_call.out.language_files[g].files) :
                           fac_call.out.language_files[g].files[k].path
                               # fac_call.files[i].path

\* an analyzer is registered under 'xyz', and foo.xyz still has none
C10_Witness ==
    /\ fac_regs > 0
    /\ Name_xyz \in DOMAIN _analyzers
    /\ fac_call.op = "get_analyzer_for_file"
    /\ fac_call.path = Path_foo_xyz
    /\ fac_call.out.ret = None

\* the keys of total_metrics when it is filled
TotalMetricsKeys ==
    {"total_files", "total_lines", "languages_analyzed", "overall_empathy_score"}

\* C11: in every result of analyze_multi_language_project each entry of
\* 'languages' has file_count >= 1, and total_metrics.total_files, when it
\* is there, is >= 0 and the sum of the file_counts.
C11_FileCountsPositive ==
    fac_call.op = "analyze_multi_language_project" =>
        LET L  == fac_call.out.languages
            tm == fac_call.out.total_metrics
        IN  /\ \A i \in 1..Len(L) : L[i].file_count >= 1
            /\ "total_files" \in DOMAIN tm =>
                  /\ tm.total_files >= 0
                  /\ tm.total_files = ISum([i \in 1..Len(L) |-> L[i].file_count])

\* two languages were analyzed, one of them with a file that raised
C11_Witness ==
    /\ fac_call.op = "analyze_multi_language_project"
    /\ Len(fac_call.out.languages) >= 2
    /\ "total_files" \in DOMAIN fac_call.out.total_metrics
    /\ \E i \in 1..Len(fac_call.out.languages) :
          fac_call.out.languages[i].summary.total_files
              < fac_call.out.languages[i].file_count

\* C12: for every file map, one with no recognized file too, the result has
\* the keys languages, total_metrics and primary_language, and total_metrics
\* has the keys total_files, total_lines, languages_analyzed and
\* overall_empathy_score.
C12_TotalMetricsAlwaysFilled ==
    fac_call.op = "analyze_multi_language_project" =>
        /\ {"languages", "total_metrics", "primary_language"} \subseteq DOMAIN fac_call.out
        /\ TotalMetricsKeys \subseteq DOMAIN fac_call.out.total_metrics

\* C12, as the code has it: the result has the keys languages, total_metrics
\* and primary_language; total_metrics has exactly the four keys when
\* 'languages' has an entry and is the empty dict when it has none, as for a
\* file map with no recognized file.
C12_TotalMetricsFilledWithLanguages ==
    fac_call.op = "analyze_multi_language_project" =>
        /\ {"languages", "total_metrics", "primary_language"} \subseteq DOMAIN fac_call.out
        /\ IF fac_call.out.languages # <<>>
           THEN DOMAIN fac_call.out.total_metrics = TotalMetricsKeys
           ELSE fac_call.out.total_metrics = EmptyDict
        /\ (\A i \in 1..Len(fac_call.files) : ~KnownExtension(fac_call.files[i].path))
              => /\ fac_call.out.languages = <<>>
                 /\ fac_call.out.primary_language = None

\* a file map with files, none of them recognized, was analyzed
C12_Witness ==
    /\ fac_call.op = "analyze_multi_language_project"
    /\ fac_call.files # <<>>
    /\ \A i \in 1..Len(fac_call.files) : ~KnownExtension(fac_call.files[i].path)
    /\ fac_call.out.total_metrics = EmptyDict

\* the language _extension_map gives the extension of a path
LanguageOf(path) == _extension_map[Lower(SplitExt(path))]

\* the files of language among files, by their positions
FilesOf(files, language) ==
    {i \in 1..Len(files) :
        KnownExtension(files[i].path) /\ LanguageOf(files[i].path) = language}

\* the languages detected among files
Detected(files) ==
    {LanguageOf(files[i].path) : i \in {j \in 1..Len(files) : KnownExtension(files[j].path)}}

\* the position of a language in the registry _analyzers
RegistryRank(language) ==
    CHOOSE i \in 1..Len(AnalyzerItems) : AnalyzerItems[i][1] = language

\* the position of the first file of language in files
FirstFile(files, language) ==
    CHOOSE i \in FilesOf(files, language) : \A j \in FilesOf(files, language) : i <= j

\* language has the most files, and goes before every other language that
\* has as many by the order Rank
PrimaryBy(files, language, Rank(_)) ==
    /\ language \in Detected(files)
    /\ \A other \in Detected(files) :
          /\ Cardinality(FilesOf(files, other)) <= Cardinality(FilesOf(files, language))
          /\ Cardinality(FilesOf(files, other)) = Cardinality(FilesOf(files, language))
                => Rank(language) <= Rank(other)

\* C16: detect_primary_language(files) returns none when no file has a
\* recognized extension; otherwise a language with the most files, and of
\* several with the most the one that comes first in the registry's
\* iteration order.
C16_TieByRegistryOrder ==
    fac_call.op = "detect_primary_language" =>
        IF Detected(fac_call.files) = {}
        THEN fac_call.out = None
        ELSE /\ fac_call.out # None
             /\ PrimaryBy(fac_call.files, fac_call.out[1], RegistryRank)

\* C16, as the code has it: none when no file has a recognized extension;
\* otherwise a language with the most files, and of several with the most
\* the one whose first file comes first in the iteration order of files.
C16_TieByFirstFile ==
    fac_call.op = "detect_primary_language" =>
        LET first(language) == FirstFile(fac_call.files, language)
        IN  IF Detected(fac_call.files) = {}
            THEN fac_call.out = None
            ELSE /\ fac_call.out # None
                 /\ PrimaryBy(fac_call.files, fac_call.out[1], first)

\* two languages have one file each, and the one returned is the later one
\* of the registry
C16_Witness ==
    /\ fac_call.op = "detect_primary_language"
    /\ \E a, b \in Detected(fac_call.files) :
          /\ a # b
          /\ Cardinality(FilesOf(fac_call.files, a)) = Cardinality(FilesOf(fac_call.files, b))
          /\ fac_call.out = Some(a)
          /\ RegistryRank(b) < RegistryRank(a)
          /\ PrimaryBy(fac_call.files, a, RegistryRank) = FALSE

\* the class the dispatcher instantiates for a language of the result
ClassOf(language) == get_analyzer(_analyzers, Lower(language)).ret[1].cls

\* the files the grouping put under a language
GroupOf(out, language) ==
    out.language_files[CHOOSE i \in 1..Len(out.language_files) :
                          out.language_files[i].language = language].files

\* C25: in every result of analyze_multi_language_project, for each language
\* the dispatcher's file_count equals the analyzer's summary.total_files
\* whenever no per-file analysis raised: every file assigned to a language by
\* get_analyzer_for_file is also accepted by that analyzer's
\* should_analyze_file and counted.
C25_FileCountIsTotalFiles ==
    fac_call.op = "analyze_multi_language_project" =>
        \A i \in 1..Len(fac_call.out.languages) :
          \A l \in {fac_call.out.languages[i]} :
            \A group \in {GroupOf(fac_call.out, l.language)} :
              (\A k \in 1..Len(group) :
                  ~analyze_file(ClassOf(l.language), group[k]).raised)
                => /\ l.file_count = l.summary.total_files
                   /\ \A k \in 1..Len(group) :
                         should_analyze_file(ClassOf(l.language), group[k].path)

\* C26: in every result of analyze_multi_language_project, in every registry
\* state reachable by register_analyzer calls, primary_language is either
\* null or a key of languages, so that languages[primary_language] cannot
\* fail.
C26_PrimaryLanguageIsAKey ==
    fac_call.op = "analyze_multi_language_project" =>
        \/ fac_call.out.primary_language = None
        \/ \E i \in 1..Len(fac_call.out.languages) :
              fac_call.out.languages[i].language = fac_call.out.primary_language[1]

\* the same with no register_analyzer call made: the built-in registry
C26_PrimaryLanguageIsAKeyBuiltIn ==
    (fac_call.op = "analyze_multi_language_project" /\ _analyzers = DefaultAnalyzers) =>
        \/ fac_call.out.primary_language = None
        \/ \E i \in 1..Len(fac_call.out.languages) :
              fac_call.out.languages[i].language = fac_call.out.primary_language[1]

-----------------------------------------------------------------------------
(* Properties of LanguageAnalyzer, checked under SpecAnalyzer *)

\* a path ends with one of the extensions of cls
Matches(cls, path) == \E ext \in get_file_extensions(cls) : EndsWith(path, ext)

\* the items of files an instance of cls takes and analyzes without raising
Analyzed(cls, files) ==
    LET ok(f) == Matches(cls, f.path) /\ ~analyze_file(cls, f).raised
    IN  SelectSeq(files, ok)

\* the per-file results of those
FileResults(cls, files) ==
    LET taken == Analyzed(cls, files)
    IN  [i \in 1..Len(taken) |-> analyze_file(cls, taken[i]).metrics]

\* the files among res whose result holds the leaf of the row
Reporting(res, row) ==
    {i \in 1..Len(res) :
        row.cat \in DOMAIN res[i] /\ row.leaf \in DOMAIN res[i][row.cat]}

\* the files among res whose result holds a mapping for the row's category
\* that is not empty
WithCategory(res, row) ==
    {i \in 1..Len(res) : row.cat \in DOMAIN res[i] /\ DOMAIN res[i][row.cat] # {}}

\* C2: after analyze_files, calculate_empathy_score() is at least 0.0 and at
\* most 1.0, whatever the input.
C2_EmpathyScoreInUnitInterval ==
    an_calls > 0 =>
        LET score == calculate_empathy_score(analyzer.metrics)
        IN  RLeq(RInt(0), score) /\ RLeq(score, RInt(1))

\* C4: self.metrics, and the mapping analyze_files returns, have the eight
\* category keys and no other, after any sequence of calls; a key of a
\* per-file result such as 'typescript' never gets there.
C4_CategoryKeysFixed ==
    /\ DOMAIN analyzer.metrics = Categories
    /\ an_calls > 0 => DOMAIN an_ret.value = Categories

\* two calls have aggregated TypeScript results that carry 'typescript'
C4_Witness ==
    /\ an_calls >= 2
    /\ analyzer.cls = "TypeScriptAnalyzer"
    /\ analyzer.total_files >= 2
    /\ \E i \in 1..Len(FileResults(analyzer.cls, an_files)) :
          "typescript" \in DOMAIN FileResults(analyzer.cls, an_files)[i]
    /\ \E c \in Categories : DOMAIN analyzer.metrics[c] # {}

\* C5: the first analyze_files call on a new analyzer, given no file or only
\* files whose paths end with none of its extensions, raises nothing and
\* returns the eight categories each empty; the score is then 0.0.
C5_NothingToAnalyze ==
    ( /\ an_calls = 1
      /\ \A i \in 1..Len(an_files) : ~Matches(analyzer.cls, an_files[i].path) ) =>
        /\ ~an_ret.raised
        /\ an_ret.value = [c \in Categories |-> EmptyDict]
        /\ analyzer.metrics = [c \in Categories |-> EmptyDict]
        /\ analyzer.total_files = 0
        /\ calculate_empathy_score(analyzer.metrics) = RInt(0)
        /\ get_summary(analyzer).empathy_score = RInt(0)

\* the first call was given files, none of them of the analyzer's language
C5_Witness ==
    /\ an_calls = 1
    /\ an_files # <<>>
    /\ \A i \in 1..Len(an_files) : ~Matches(analyzer.cls, an_files[i].path)
    /\ ~an_ret.raised

C8_RaisingFileIsSkipped ==
    [][ an_calls' = an_calls + 1 =>
          \A good \in {Analyzed(analyzer.cls, an_files')} :
            /\ ~an_ret'.raised
            /\ analyzer'.total_files = analyzer.total_files + Len(good)
            /\ analyzer'.total_lines =
                   analyzer.total_lines + ISum([i \in 1..Len(good) |-> good[i].nl])
            /\ analyzer'.metrics = analyze_files(analyzer, good).self.metrics
            /\ an_ret'.value = analyzer'.metrics ]_vars

\* the last call was given a matching file that raises and one that does not
C8_Witness ==
    /\ an_calls > 0
    /\ ~an_ret.raised
    /\ \E i, j \in 1..Len(an_files) :
          /\ Matches(analyzer.cls, an_files[i].path)
          /\ analyze_file(analyzer.cls, an_files[i]).raised
          /\ Matches(analyzer.cls, an_files[j].path)
          /\ ~analyze_file(analyzer.cls, an_files[j]).raised
    /\ analyzer.total_files > 0

\* metrics.get(cat, {}).get(leaf, 0) of a per-file result
LeafOf(metrics, cat, leaf) ==
    DictGet(DictGet(metrics, cat, EmptyDict), leaf, RInt(0))

\* the TypeScript files of the last call whose JavaScript analysis returned
TypeScriptInputs ==
    {i \in 1..Len(an_files) :
        /\ Matches("TypeScriptAnalyzer", an_files[i].path)
        /\ ~BaseOutcome(an_files[i].base).raised
        /\ ~analyze_file("TypeScriptAnalyzer", an_files[i]).raised}

\* C22: TypeScriptAnalyzer.analyze_file returns the JavaScript analyzer's
\* documentacion.cobertura and seguridad.validacion unchanged when the type
\* coverage is at or below 0.7, and each of them raised by a bonus, never
\* above 1.0, when the type coverage is above 0.7.
C22_BonusOnlyAboveThreshold ==
    (an_calls > 0 /\ analyzer.cls = "TypeScriptAnalyzer") =>
        \A i \in TypeScriptInputs :
          \A base \in {BaseOutcome(an_files[i].base).metrics},
             ts \in {analyze_file("TypeScriptAnalyzer", an_files[i]).metrics} :
            /\ RLeq(an_files[i].tc, Rat(7, 10)) =>
                 /\ LeafOf(ts, "documentacion", "cobertura")
                        = LeafOf(base, "documentacion", "cobertura")
                 /\ LeafOf(ts, "seguridad", "validacion")
                        = LeafOf(base, "seguridad", "validacion")
            /\ RLt(Rat(7, 10), an_files[i].tc) =>
                 /\ RLeq(LeafOf(base, "documentacion", "cobertura"),
                         LeafOf(ts, "documentacion", "cobertura"))
                 /\ RLeq(LeafOf(ts, "documentacion", "cobertura"), RInt(1))
                 /\ RLeq(LeafOf(base, "seguridad", "validacion"),
                         LeafOf(ts, "seguridad", "validacion"))
                 /\ RLeq(LeafOf(ts, "seguridad", "validacion"), RInt(1))

\* C27: after any sequence of analyze_files calls on one analyzer instance,
\* get_summary() describes only the most recent call: total_files and
\* total_lines are the files and lines analyzed in that call, and the metrics
\* hold no value left over from an earlier call.
C27_SummaryOfLastCallOnly ==
    an_calls > 0 =>
        \A good \in {Analyzed(analyzer.cls, an_files)},
           summary \in {get_summary(analyzer)} :
          /\ summary.total_files = Len(good)
          /\ summary.total_lines = ISum([i \in 1..Len(good) |-> good[i].nl])
          /\ summary.metrics =
                 analyze_files(NewAnalyzer(analyzer.cls), an_files).self.metrics

\* the same for the first call on a new instance
C27_SummaryOfFirstCall ==
    an_calls = 1 =>
        \A good \in {Analyzed(analyzer.cls, an_files)},
           summary \in {get_summary(analyzer)} :
          /\ summary.total_files = Len(good)
          /\ summary.total_lines = ISum([i \in 1..Len(good) |-> good[i].nl])
          /\ summary.metrics =
                 analyze_files(NewAnalyzer(analyzer.cls), an_files).self.metrics

-----------------------------------------------------------------------------
(* Properties of DuplicationAnalyzer, checked under SpecDup *)

\* a line with text left once its comment is dropped
NonBlank(line) == Strip(StripComments(line)) # <<>>

\* content has n consecutive lines none of which is blank
HasRun(content, n) ==
    \E i \in 0..(Len(content) - n) : \A j \in 1..n : NonBlank(content[i + j])

\* content is the six-line body, up to indentation and blank lines
IsBodyCopy(content) ==
    LET kept == SelectSeq(content, NonBlank)
    IN  [i \in 1..Len(kept) |-> Strip(kept[i])] = Body

\* the window of min_block_size lines that starts at line w of the body
\* stands in content with no blank line inside it
WindowIntact(content, w, size) ==
    \E i \in 0..(Len(content) - size) :
        \A j \in 1..size : Strip(content[i + j]) = Body[w + j - 1]

\* the number of lines from which one block of 5 duplicated lines is a
\* share that round(x, 2) takes to 0.0
LinesRoundingToZero == 100 * DefaultMinBlockSize * 200

\* find_duplicates has returned for a.py and b.py, each a copy of the body,
\* on DuplicationAnalyzer(min_block_size=5)
TwoBodyCopies ==
    /\ dup_call.pc = "done"
    /\ dup.min_block_size = DefaultMinBlockSize
    /\ dup.ignore_whitespace
    /\ Len(dup_call.files) = 2
    /\ {dup_call.files[1].path, dup_call.files[2].path}
           = {<<"a">> \o Ext_py, <<"b">> \o Ext_py}
    /\ IsBodyCopy(dup_call.files[1].content)
    /\ IsBodyCopy(dup_call.files[2].content)

\* C3: for a file set F and F2, F with an exact copy of every file under a
\* fresh path, porcentaje_global of F2 is strictly greater than that of F,
\* or equal to it when that of F is already 100.
C3_CopiesStrictlyRaisePercentage ==
    (dup_call.pc = "copied" /\ dup_call.files # <<>>) =>
        \/ RLt(dup_call.out.porcentaje_global, dup_call.out2.porcentaje_global)
        \/ /\ dup_call.out.porcentaje_global = RInt(100)
           /\ dup_call.out2.porcentaje_global = RInt(100)

\* C3, as the code has it: porcentaje_global of F2 is never less than that
\* of F; when some file of F holds min_block_size consecutive non-blank
\* lines the share of duplicated lines, lineas_duplicadas over the total of
\* lines, is strictly greater for F2 than for F; when no file does, both
\* percentages are 0.
C3_CopiesNeverLowerPercentage ==
    dup_call.pc = "copied" =>
        LET F  == dup_call.files
            r  == dup_call.out
            r2 == dup_call.out2
        IN  /\ RLeq(r.porcentaje_global, r2.porcentaje_global)
            /\ IF \E i \in 1..Len(F) : HasRun(F[i].content, dup.min_block_size)
               THEN r2.lineas_duplicadas * TotalLines(F)
                        > r.lineas_duplicadas * TotalLines(WithCopies(F))
               ELSE /\ r.porcentaje_global = RInt(0)
                    /\ r2.porcentaje_global = RInt(0)

\* files that already hold a duplicated block were analyzed with their copies
C3_Witness ==
    /\ dup_call.pc = "copied"
    /\ dup_call.out.bloques_encontrados > 0
    /\ RLt(dup_call.out.porcentaje_global, dup_call.out2.porcentaje_global)

\* C7: a.py and b.py each hold the same six-line body, differing only in
\* indentation and blank lines; with min_block_size=5 the report has exactly
\* 1 cluster, of 2 occurrences, archivos_afectados is {a.py, b.py} and
\* porcentaje_global is greater than 0.
C7_OneClusterForSharedBody ==
    TwoBodyCopies =>
        LET r == dup_call.out
        IN  /\ r.bloques_encontrados = 1
            /\ \A k \in 1..Len(r.duplicates_details) :
                  r.duplicates_details[k].occurrences = 2
            /\ r.archivos_afectados = {dup_call.files[1].path, dup_call.files[2].path}
            /\ RLt(RInt(0), r.porcentaje_global)

\* C7, as the code has it: the report has one cluster, of 2 occurrences, for
\* each of the body's two windows of 5 lines that stands without a blank
\* line inside it in both files: 2 clusters when the six lines are
\* consecutive in both, none when a blank line leaves a file without five
\* consecutive lines of the body.  With a cluster, archivos_afectados is
\* {a.py, b.py} and porcentaje_global, 5 lines for each cluster over the
\* lines of both files, is greater than 0 as long as the files have fewer
\* than LinesRoundingToZero lines; with none, archivos_afectados is empty
\* and porcentaje_global is 0.
C7_OneClusterPerSharedWindow ==
    TwoBodyCopies =>
        LET r      == dup_call.out
            a      == dup_call.files[1].content
            b      == dup_call.files[2].content
            size   == dup.min_block_size
            shared == {w \in 1..(Len(Body) - size + 1) :
                          WindowIntact(a, w, size) /\ WindowIntact(b, w, size)}
        IN  /\ r.bloques_encontrados = Cardinality(shared)
            /\ \A k \in 1..Len(r.duplicates_details) :
                  /\ r.duplicates_details[k].occurrences = 2
                  /\ r.duplicates_details[k].size = size
            /\ r.total_ocurrencias = 2 * Cardinality(shared)
            /\ r.lineas_duplicadas = size * Cardinality(shared)
            /\ (HasRun(a, Len(Body)) /\ HasRun(b, Len(Body))) => Cardinality(shared) = 2
            /\ (~HasRun(a, size) \/ ~HasRun(b, size)) => shared = {}
            /\ r.porcentaje_global =
                   Round2(Rat(100 * size * Cardinality(shared), Len(a) + Len(b)))
            /\ IF shared # {}
               THEN /\ r.archivos_afectados
                          = {dup_call.files[1].path, dup_call.files[2].path}
                    /\ Len(a) + Len(b) < LinesRoundingToZero
                          => RLt(RInt(0), r.porcentaje_global)
               ELSE /\ r.archivos_afectados = {}
                    /\ r.porcentaje_global = RInt(0)

\* the body stands plain in one file and indented, a blank line after it, in
\* the other: both of its windows are found
C7_Witness ==
    /\ TwoBodyCopies
    /\ \E i, j \in 1..2 :
          /\ dup_call.files[i].content = Body
          /\ dup_call.files[j].content = InsertLine(BodyDeep, Len(Body), Line_none)
    /\ dup_call.out.bloques_encontrados = 2

\* the blocks of the result that lie in the file at path
BlocksIn(out, path) ==
    UNION { {<<k, i>> : i \in {j \in 1..Len(out.duplicates_details[k].blocks) :
                                  out.duplicates_details[k].blocks[j].file_path = path}}
            : k \in 1..Len(out.duplicates_details) }

\* C17: a file that is empty or holds white space only, added to the input
\* of find_duplicates, changes nothing but total_archivos: porcentaje_global,
\* bloques_encontrados, total_ocurrencias, lineas_duplicadas,
\* archivos_afectados and mayor_duplicacion stay as they were; and a file of
\* fewer than min_block_size lines contributes no blocks.
C17_BlankFileChangesNothing ==
    /\ dup_call.pc = "padded" =>
          /\ dup_call.out2.total_archivos    = dup_call.out.total_archivos + 1
          /\ dup_call.out2.porcentaje_global = dup_call.out.porcentaje_global
          /\ dup_call.out2.bloques_encontrados = dup_call.out.bloques_encontrados
          /\ dup_call.out2.total_ocurrencias = dup_call.out.total_ocurrencias
          /\ dup_call.out2.lineas_duplicadas = dup_call.out.lineas_duplicadas
          /\ dup_call.out2.archivos_afectados = dup_call.out.archivos_afectados
          /\ dup_call.out2.mayor_duplicacion = dup_call.out.mayor_duplicacion
    /\ dup_call.pc = "done" =>
          \A i \in 1..Len(dup_call.files) :
              Len(dup_call.files[i].content) < dup.min_block_size
                  => BlocksIn(dup_call.out, dup_call.files[i].path) = {}

\* C18: analyze_repository_files raises for no file map: when find_duplicates
\* raises it returns the zeroed result (porcentaje_global 0,
\* bloques_encontrados 0, total_ocurrencias 0, lineas_duplicadas 0,
\* archivos_afectados empty, mayor_duplicacion none) with an 'error' field,
\* and otherwise what find_duplicates returns.
C18_NeverRaises ==
    dup_call.pc = "analyzed" =>
        /\ dup_call.out.raised = FALSE
        /\ IF \E i \in 1..Len(dup_call.files) : dup_call.files[i].content = None
           THEN /\ "error" \in DOMAIN dup_call.out.value
                /\ dup_call.out.value.porcentaje_global = RInt(0)
                /\ dup_call.out.value.bloques_encontrados = 0
                /\ dup_call.out.value.total_ocurrencias = 0
                /\ dup_call.out.value.lineas_duplicadas = 0
                /\ dup_call.out.value.archivos_afectados = {}
                /\ dup_call.out.value.mayor_duplicacion = None
           ELSE /\ "error" \notin DOMAIN dup_call.out.value
                /\ dup_call.out.value = find_duplicates(dup, dup_call.files)

\* find_duplicates raised on the second file, after a first one with blocks,
\* and the zeroed result came back
C18_Witness ==
    /\ dup_call.pc = "analyzed"
    /\ Len(dup_call.files) = 2
    /\ dup_call.files[1].content = Body
    /\ dup_call.files[2].content = None
    /\ dup_call.out.raised = FALSE
    /\ "error" \in DOMAIN dup_call.out.value

\* the sizes of the duplicated blocks of the result that lie in the file at
\* path, summed
DuplicatedIn(out, path) ==
    ISum([k \in 1..Len(out.duplicates_details) |->
            out.duplicates_details[k].size
              * Cardinality({j \in 1..Len(out.duplicates_details[k].blocks) :
                               out.duplicates_details[k].blocks[j].file_path = path})])

\* that sum over the line count of the file
DuplicatedRatio(out, file) ==
    Rat(DuplicatedIn(out, file.path), Max(Len(file.content), 1))

\* C19: mayor_duplicacion.archivo is the file with the largest ratio of
\* (sum of the sizes of its duplicated blocks) to (its own line count), and
\* mayor_duplicacion is none when there is no duplicate cluster.
C19_MostDuplicatedByRatio ==
    dup_call.pc = "done" =>
        IF dup_call.out.duplicates_details = <<>>
        THEN dup_call.out.mayor_duplicacion = None
        ELSE /\ dup_call.out.mayor_duplicacion # None
             /\ \E i \in 1..Len(dup_call.files) :
                   /\ dup_call.files[i].path = dup_call.out.mayor_duplicacion[1].archivo
                   /\ \A j \in 1..Len(dup_call.files) :
                         RLeq(DuplicatedRatio(dup_call.out, dup_call.files[j]),
                              DuplicatedRatio(dup_call.out, dup_call.files[i]))

\* C19 with the sums in place of the ratios (what max(..., key=x[1]) takes)
C19_MostDuplicatedBySum ==
    dup_call.pc = "done" =>
        IF dup_call.out.duplicates_details = <<>>
        THEN dup_call.out.mayor_duplicacion = None
        ELSE /\ dup_call.out.mayor_duplicacion # None
             /\ \A j \in 1..Len(dup_call.files) :
                   DuplicatedIn(dup_call.out, dup_call.files[j].path)
                     <= DuplicatedIn(dup_call.out, dup_call.out.mayor_duplicacion[1].archivo)

-----------------------------------------------------------------------------
\* C23: for every file map and every min_block_size >= 1, find_duplicates
\* reports 0 <= porcentaje_global <= 100: lineas_duplicadas never exceeds
\* the total number of lines across all files, also when overlapping windows
\* of one file hash to the same block.
C23_GlobalPercentageWithinBounds ==
    /\ dup_call.pc = "done" =>
          /\ RLeq(RInt(0), dup_call.out.porcentaje_global)
          /\ RLeq(dup_call.out.porcentaje_global, RInt(100))
          /\ dup_call.out.lineas_duplicadas <= TotalLines(dup_call.files)
    /\ dup_call.pc = "copied" =>
          /\ RLeq(RInt(0), dup_call.out2.porcentaje_global)
          /\ RLeq(dup_call.out2.porcentaje_global, RInt(100))
          /\ dup_call.out2.lineas_duplicadas <= TotalLines(WithCopies(dup_call.files))

(* Properties of CacheManager and CachedAnalyzer, checked under SpecCache *)

\* the entry file is whole: JSON with the four fields and a date in it
WellFormed(entry) ==
    /\ entry # None
    /\ entry[1].text = "json"
    /\ DOMAIN entry[1].obj = {"timestamp", "repo_name", "commit_hash", "data"}
    /\ entry[1].obj.timestamp.valid

\* the entry was stored no more than ttl_hours before the time at
Fresh(entry, at) ==
    WellFormed(entry) /\ at - entry[1].obj.timestamp.t <= cache.ttl_hours

\* the entry carries a date more than ttl_hours before the time at
Expired(entry, at) ==
    /\ entry # None
    /\ entry[1].text = "json"
    /\ "timestamp" \in DOMAIN entry[1].obj
    /\ entry[1].obj.timestamp.valid
    /\ at - entry[1].obj.timestamp.t > cache.ttl_hours

\* the entry was stored for (repo_name, commit_hash)
StoredFor(entry, repo_name, commit_hash) ==
    /\ entry[1].obj.repo_name = repo_name
    /\ entry[1].obj.commit_hash = commit_hash

\* what C13 says of the last analyze_repo and get, with "an entry for
\* (repo, commit)" read as Owns(entry, repo, commit)
AnalyzeRepoContract(Owns(_, _, _)) ==
    /\ (cache_call.op = "analyze_repo" /\ ~cache_call.force) =>
          /\ ~cache_call.invoked =>
                /\ Fresh(cache_call.entry, cache_call.at)
                /\ Owns(cache_call.entry, cache_call.repo_name, cache_call.commit_hash)
                /\ cache_call.ret = cache_call.entry[1].obj.data
          /\ ~Fresh(cache_call.entry, cache_call.at) =>
                /\ cache_call.invoked
                /\ ~cache_call.raised => cache_call.ret = cache_call.analysis[1].value
          /\ Expired(cache_call.entry, cache_call.at) =>
                \/ cache_call.after = None
                \/ /\ WellFormed(cache_call.after)
                   /\ cache_call.after[1].obj.timestamp.t = cache_call.at
                   /\ cache_call.after[1].obj.data = cache_call.ret
    /\ cache_call.op = "get" =>
          /\ ~Fresh(cache_call.entry, cache_call.at) => cache_call.ret = None
          /\ Expired(cache_call.entry, cache_call.at) => cache_call.after = None

\* C13: analyze_repo(repo, commit, force=False) returns a stored payload
\* without invoking the analyzer only when an entry for (repo, commit)
\* exists that was stored no more than ttl_hours ago; on a miss, an expired
\* entry or an unreadable or malformed entry it invokes the analyzer and
\* returns what the analyzer returns, never the old payload; and an expired
\* entry is removed when it is read.
C13_StoredPayloadOnlyFromOwnFreshEntry == AnalyzeRepoContract(StoredFor)

\* the same with "an entry for (repo, commit)" read as the entry file at
\* get_cache_key(repo, commit), whoever stored it
C13_StoredPayloadOnlyFromFreshEntryAtKey ==
    LET AtKey(entry, repo_name, commit_hash) == TRUE
    IN  AnalyzeRepoContract(AtKey)

\* C14: after set(repo, data, commit) succeeds, get(repo, commit) within
\* ttl_hours and with no delete or clear of that key in between returns
\* exactly data, the data of the most recent set for (repo, commit).
C14_GetReturnsLastSet ==
    (/\ cache_call.op = "get"
     /\ cache_call.logged # None
     /\ cache_call.at - cache_call.logged[1].at <= cache.ttl_hours)
        => cache_call.ret = cache_call.logged[1].data

\* C14 where, besides, the entry file is still the one that set wrote
C14_GetReturnsUntouchedEntry ==
    (/\ cache_call.op = "get"
     /\ cache_call.logged # None
     /\ cache_call.at - cache_call.logged[1].at <= cache.ttl_hours
     /\ WellFormed(cache_call.entry)
     /\ StoredFor(cache_call.entry, cache_call.repo_name, cache_call.commit_hash))
        => cache_call.ret = cache_call.logged[1].data

\* C28: two different cache identities (repo_name, commit_hash) never share
\* a cache entry: get_cache_key maps distinct pairs to distinct key strings,
\* so a get for one pair returns only what was set for that same pair.
C28_GetReturnsOwnIdentity ==
    (cache_call.op = "get" /\ cache_call.ret # None) =>
        StoredFor(cache_call.entry, cache_call.repo_name, cache_call.commit_hash)

\* the same for identities whose commit hash is absent or not empty and
\* whose repository name holds no colon
C28_GetReturnsOwnIdentityPlainNames ==
    (/\ cache_call.op = "get"
     /\ cache_call.ret # None
     /\ cache_call.repo_name = Repo_ab
     /\ cache_call.commit_hash # Some(<<>>)
     /\ cache_call.entry[1].obj.repo_name = Repo_ab
     /\ cache_call.entry[1].obj.commit_hash # Some(<<>>)) =>
        StoredFor(cache_call.entry, cache_call.repo_name, cache_call.commit_hash)

-----------------------------------------------------------------------------
(* Properties of two CacheManager instances, checked under SpecManagers *)

\* no instance is inside a call
Quiescent == \A m \in Managers : managers[m].pc = "idle"

-----------------------------------------------------------------------------
(* Properties of GitHubRepo, checked under SpecGit *)

\* the files of a listing and of everything under it that the loops could take
RECURSIVE CollectableUnder(_)
CollectableUnder(listing) ==
    IF listing = <<>> THEN 0
    ELSE (IF listing[1].type = "file"
          THEN (IF Collectable(listing[1]) THEN 1 ELSE 0)
          ELSE (IF listing[1].listing = None THEN 0
                ELSE CollectableUnder(listing[1].listing[1])))
         + CollectableUnder(Tail(listing))

C20_DefaultLeavesKept ==
    (git_call.op = "analizar_repo" /\ ~git_call.raised /\ git_call.ret # None) =>
        \A categoria \in Categories :
            \A leaf \in DOMAIN DefaultMetrics[categoria] :
                /\ leaf \in DOMAIN git_call.ret[1][categoria]
                /\ git_call.ret[1][categoria][leaf].d > 0

-----------------------------------------------------------------------------
(* Properties of two analyze_multi_language_project runs, checked under    *)
(* SpecRuns                                                                *)

\* C21: two analyze_multi_language_project runs on two file maps, their
\* steps interleaved in any order, each return what the run returns when
\* it runs alone: each run constructs its own analyzer instances, and the
\* metrics, total_files and total_lines one run writes are read by that
\* run only.
C21_RunsReturnAsAlone ==
    \A r \in Runs :
       runs[r].pc = "done" =>
          runs[r].out = Some(analyze_multi_language_project(_analyzers, runs[r].files))

\* both runs have returned, the second started while the first was under
\* way, and both analyzed Python files
C21_Witness ==
    /\ \A r \in Runs : runs[r].pc = "done"
    /\ \E r \in Runs : runs[r].during
    /\ \A r \in Runs :
          \E i \in 1..Len(runs[r].out[1].languages) :
             /\ runs[r].out[1].languages[i].language = PythonLanguageName
             /\ runs[r].out[1].languages[i].summary.total_files > 0

-----------------------------------------------------------------------------
(* Properties of analizar_repo under 403 answers, checked under SpecRetry  *)

\* C24: analizar_repo eventually terminates for every behaviour of the
\* GitHub API: after a 403 it waits until the reset time and retries, and
\* the sequence of retries ends with the metrics, with None or with a raised
\* error; it does not retry forever when the 403 persists or the reset time
\* is in the past.
C24_AnalizarRepoTerminates ==
    (git_retry.pc # "idle") ~>
        (git_retry.pc = "done" /\ git_retry.ret \in {"metrics", "None", "raised"})

\* a call that ended after a 403, a wait and a retry
C24_Witness ==
    /\ git_retry.pc = "done"
    /\ git_retry.depth >= 2
    /\ git_retry.slept > 0

-----------------------------------------------------------------------------
(* Properties of ChartGenerator, checked under SpecChart *)

\* the category a label names
CategoryNamed(label) ==
    CASE label = "NOMBRES"        -> "nombres"
      [] label = "DOCUMENTACION"  -> "documentacion"
      [] label = "MODULARIDAD"    -> "modularidad"
      [] label = "COMPLEJIDAD"    -> "complejidad"
      [] label = "MANEJO ERRORES" -> "manejo_errores"
      [] label = "PRUEBAS"        -> "pruebas"
      [] label = "SEGURIDAD"      -> "seguridad"
      [] label = "CONSISTENCIA"   -> "consistencia_estilo"

\* the data points of a chart are, position by position, the scores of the
\* categories that the labels from position from to position to name
LabelsNameData(from, to) ==
    chart_call # NoChartCall =>
       \A i \in from..to :
          /\ chart_call.chart.empresa[i] =
                CategoryScore(RepoData(chart_call.metricas, "empresa"),
                              CategoryNamed(chart_call.chart.labels[i]))
          /\ chart_call.chart.candidato[i] =
                CategoryScore(RepoData(chart_call.metricas, "candidato"),
                              CategoryNamed(chart_call.chart.labels[i]))

\* C30: in the radar, bar and category charts of ChartGenerator the i-th
\* label names the category whose empresa and candidato scores are the i-th
\* data points, for every i: CATEGORIAS, which _get_scores follows, and
\* CATEGORIAS_LABELS name the same eight categories position by position.
C30_LabelsNameTheDataPoints ==
    /\ Len(CATEGORIAS_LABELS) = Len(CATEGORIAS)
    /\ LabelsNameData(1, Len(CATEGORIAS))

\* the first six labels name their data points
C30_FirstSixLabelsNameTheDataPoints == LabelsNameData(1, 6)

=============================================================================
